---- MODULE Spec2Model ----
(***************************************************************************)
(* A model of boost::bloom's filter engine (detail/core.hpp), its          *)
(* subfilters (block, multiblock, fast_multiblock32) and the extended      *)
(* multiplication they rest on.                                            *)
(*                                                                         *)
(* 64-bit words are little-endian sequences of 8 bytes, so that products   *)
(* keep their full width; memory is a sequence of bytes per buffer.        *)
(***************************************************************************)
EXTENDS Integers, Sequences, FiniteSets, TLC

VARIABLES
  cfg,     \* the template selection <K, Subfilter, BucketSize, Allocator> in force
  flt,     \* the filter objects: liveness, allocator, hs.rng, ar.data, ar.buckets
  heap,    \* the buffers handed out by the allocators
  dummy,   \* the static all-ones array of new_array and where it lies
  ins,     \* per filter, the hashes inserted since its last clear/reset
  last,    \* the operation performed last, with its arguments and what it did
  rd       \* per reader thread, where it is in its const call and its locals

vars == <<cfg, flt, heap, dummy, ins, last, rd>>

(***************************************************************************)
(* Bounds of the model.                                                    *)
(***************************************************************************)
MaxHashes == 2
MaxRange == 4

(***************************************************************************)
(* Bytes and words.                                                        *)
(***************************************************************************)
CHAR_BIT == 8

Pow2(n) == 2 ^ n

RECURSIVE ToBytes(_, _)
ToBytes(v, n) ==
  IF n = 0 THEN <<>> ELSE <<v % 256>> \o ToBytes(v \div 256, n - 1)

RECURSIVE FromBytes(_)
FromBytes(b) ==
  IF b = <<>> THEN 0 ELSE b[1] + 256 * FromBytes(Tail(b))

Fill(n, v) == [i \in 1..n |-> v] \o <<>>

\* the n elements of s from offset off on
Slice(s, off, n) == SubSeq(s, off + 1, off + n)

\* s with w written at offset off; a write has to lie inside s
Patch(s, off, w) ==
  CASE off >= 0 /\ off + Len(w) <= Len(s) ->
    SubSeq(s, 1, off) \o w \o SubSeq(s, off + Len(w) + 1, Len(s))

RECURSIVE BitAnd(_, _, _)
BitAnd(a, b, n) ==
  IF n = 0 \/ a = 0 \/ b = 0 THEN 0
  ELSE (a % 2) * (b % 2) + 2 * BitAnd(a \div 2, b \div 2, n - 1)

RECURSIVE BitOr(_, _, _)
BitOr(a, b, n) ==
  IF n = 0 THEN 0
  ELSE IF a = 0 THEN b
  ELSE IF b = 0 THEN a
  ELSE (IF a % 2 = 1 \/ b % 2 = 1 THEN 1 ELSE 0)
         + 2 * BitOr(a \div 2, b \div 2, n - 1)

RECURSIVE BitXor(_, _, _)
BitXor(a, b, n) ==
  IF n = 0 THEN 0
  ELSE IF a = 0 THEN b
  ELSE IF b = 0 THEN a
  ELSE ((a + b) % 2) + 2 * BitXor(a \div 2, b \div 2, n - 1)

AndBytes(x, y) == [i \in 1..Len(x) |-> BitAnd(x[i], y[i], 8)] \o <<>>
OrBytes(x, y) == [i \in 1..Len(x) |-> BitOr(x[i], y[i], 8)] \o <<>>
XorBytes(x, y) == [i \in 1..Len(x) |-> BitXor(x[i], y[i], 8)] \o <<>>

\* bit n (0-based, little-endian) of the byte sequence x
TestBit(x, n) == (x[(n \div 8) + 1] \div Pow2(n % 8)) % 2 = 1

\* x | (1 << n)
SetBit(x, n) ==
  IF TestBit(x, n) THEN x
  ELSE [x EXCEPT ![(n \div 8) + 1] = @ + Pow2(n % 8)]

\* x >> s for 0 <= s < 8
ShiftRight(x, s) ==
  [i \in 1..Len(x) |->
     (x[i] \div Pow2(s))
       + (IF i < Len(x) THEN (x[i + 1] % Pow2(s)) * Pow2(8 - s) ELSE 0)] \o <<>>

(***************************************************************************)
(* Extended multiplication: the full product of two words, byte by byte.   *)
(***************************************************************************)
\* the sum of x[i] * y[k - i + 1] from i on
RECURSIVE ColumnSum(_, _, _, _)
ColumnSum(x, y, k, i) ==
  IF i > Len(x) \/ i > k THEN 0
  ELSE x[i] * y[k - i + 1] + ColumnSum(x, y, k, i + 1)

\* the first i for which y has a byte k - i + 1
FirstTerm(y, k) == IF k > Len(y) THEN k - Len(y) + 1 ELSE 1

RECURSIVE Columns(_, _, _, _)
Columns(x, y, k, carry) ==
  IF k > Len(x) + Len(y) THEN <<>>
  ELSE LET s == ColumnSum(x, y, k, FirstTerm(y, k)) + carry
       IN  <<s % 256>> \o Columns(x, y, k + 1, s \div 256)

FullProduct(x, y) == Columns(x, y, 1, 0)

\* the low n bytes of the product
RECURSIVE LowColumns(_, _, _, _, _)
LowColumns(x, y, k, carry, n) ==
  IF k > n THEN <<>>
  ELSE LET s == ColumnSum(x, y, k, FirstTerm(y, k)) + carry
       IN  <<s % 256>> \o LowColumns(x, y, k + 1, s \div 256, n)

LowProduct(x, y, n) == LowColumns(x, y, 1, 0, n)

\* x << s for 0 <= s < 8 * Len(x), bits shifted out dropped
ShiftLeft(x, s) ==
  [i \in 1..Len(x) |->
     IF i - (s \div 8) < 1 THEN 0
     ELSE ((x[i - (s \div 8)] * Pow2(s % 8)) % 256)
            + (IF i - (s \div 8) > 1
               THEN x[i - (s \div 8) - 1] \div Pow2(8 - (s % 8)) ELSE 0)] \o <<>>

\* y without its high-order zero bytes
RECURSIVE Significant(_)
Significant(y) ==
  IF y = <<>> \/ y[Len(y)] # 0 THEN y ELSE Significant(SubSeq(y, 1, Len(y) - 1))

\* x + y + carry of two numbers of the same length, the carry out dropped
RECURSIVE SumBytes(_, _, _, _)
SumBytes(x, y, i, carry) ==
  IF i > Len(x) THEN <<>>
  ELSE LET s == x[i] + y[i] + carry
       IN  <<s % 256>> \o SumBytes(x, y, i + 1, s \div 256)

\* mulx64(x,y,hi): returns the low word, stores the high word in hi
mulx64(x, y) ==
  LET p == FullProduct(x, Significant(y))
      r == p \o Fill(16 - Len(p), 0)
  IN  [lo |-> Slice(r, 0, 8), hi |-> Slice(r, 8, 8)]

\* 0x9E3779B97F4A7C15, the multiplier of mulx64_mix
Phi64 == <<21, 124, 74, 127, 185, 121, 55, 158>>

mulx64_mix(x) ==
  LET r == mulx64(x, Phi64) IN XorBytes(r.hi, r.lo)

(***************************************************************************)
(* umul128 where the build has neither an intrinsic nor __uint128_t: four  *)
(* products of 32-bit halves, summed in 64-bit words.                      *)
(***************************************************************************)
\* (boost::uint32_t)x as a 64-bit word
Low32(x) == Slice(x, 0, 4) \o Fill(4, 0)

\* x >> 32
High32(x) == Slice(x, 4, 4) \o Fill(4, 0)

\* x + y and x * y in boost::uint64_t
Add64(x, y) == SumBytes(x, y, 1, 0)

Mul64(x, y) == LowProduct(x, y, 8)

\* the fallback without r3+=r2>>32
umul128_portable_lost_carry(x, y) ==
  LET x1 == Low32(x)
      x2 == High32(x)
      y1 == Low32(y)
      y2 == High32(y)
      r2a == Mul64(x1, y2)
      r2b == Mul64(x2, y1)
      r3 == Add64(Add64(Mul64(x2, y2), High32(r2a)), High32(r2b))
      r1 == Mul64(x1, y1)
      r2 == Add64(Add64(High32(r1), Low32(r2a)), Low32(r2b))
  IN  [lo |-> Add64(Fill(4, 0) \o Slice(r2, 0, 4), Low32(r1)), hi |-> r3]

umul128_portable(x, y) ==
  LET x1 == Low32(x)
      x2 == High32(x)
      y1 == Low32(y)
      y2 == High32(y)
      r2a == Mul64(x1, y2)
      r2b == Mul64(x2, y1)
      r3 == Add64(Add64(Mul64(x2, y2), High32(r2a)), High32(r2b))
      r1 == Mul64(x1, y1)
      r2 == Add64(Add64(High32(r1), Low32(r2a)), Low32(r2b))
  IN  [lo |-> Add64(Fill(4, 0) \o Slice(r2, 0, 4), Low32(r1)),
       hi |-> Add64(r3, High32(r2))]

\* umul128 as the build selects it: __uint128_t (or the intrinsics, which
\* return the same words) or the fallback
umul128(build, x, y) ==
  IF build = "portable" THEN umul128_portable(x, y) ELSE mulx64(x, y)

\* mulx64(x) of mulx64.hpp, mulx64_mix: hi^lo of x * 0x9E3779B97F4A7C15
mulx64_mix_built(build, x) ==
  LET r == umul128(build, x, Phi64) IN XorBytes(r.hi, r.lo)


(***************************************************************************)
(* Template selections.  sub/impl name the subfilter and, for              *)
(* fast_multiblock32, the implementation the build selects; blockBytes is  *)
(* sizeof(Block) of block/multiblock; pocca/pocma/pocs are the allocator's *)
(* propagation traits.                                                     *)
(***************************************************************************)
Configs ==
  << [K |-> 2, sub |-> "block", impl |-> "scalar", blockBytes |-> 1, kp |-> 1,
      BucketSize |-> 0, pocca |-> FALSE, pocma |-> FALSE, pocs |-> FALSE],
     [K |-> 1, sub |-> "block", impl |-> "scalar", blockBytes |-> 2, kp |-> 3,
      BucketSize |-> 1, pocca |-> TRUE, pocma |-> TRUE, pocs |-> TRUE],
     [K |-> 1, sub |-> "multiblock", impl |-> "scalar", blockBytes |-> 2, kp |-> 2,
      BucketSize |-> 0, pocca |-> FALSE, pocma |-> TRUE, pocs |-> FALSE],
     [K |-> 1, sub |-> "fast_multiblock32", impl |-> "avx2", blockBytes |-> 4, kp |-> 2,
      BucketSize |-> 2, pocca |-> TRUE, pocma |-> FALSE, pocs |-> TRUE],
     [K |-> 1, sub |-> "fast_multiblock32", impl |-> "neon", blockBytes |-> 4, kp |-> 2,
      BucketSize |-> 2, pocca |-> FALSE, pocma |-> FALSE, pocs |-> TRUE],
     [K |-> 1, sub |-> "fast_multiblock32", impl |-> "scalar", blockBytes |-> 4, kp |-> 2,
      BucketSize |-> 2, pocca |-> FALSE, pocma |-> FALSE, pocs |-> TRUE] >>

ConfigIds == 1..Len(Configs)

\* sizeof(Subfilter::value_type)
block_size(c) ==
  CASE c.sub = "block" -> c.blockBytes
    [] c.sub = "multiblock" -> c.blockBytes * c.kp
    [] c.sub = "fast_multiblock32" ->
         IF c.impl = "scalar" THEN 4 * c.kp ELSE 32 * ((c.kp + 7) \div 8)

\* alignof(Subfilter::value_type)
alignof_block(c) ==
  CASE c.sub = "fast_multiblock32" /\ c.impl = "avx2" -> 32
    [] c.sub = "fast_multiblock32" /\ c.impl = "neon" -> 16
    [] OTHER -> c.blockBytes

used_block_size(c) ==
  IF c.sub = "fast_multiblock32" /\ c.impl # "scalar"
  THEN 4 * c.kp
  ELSE block_size(c)

bucket_size(c) ==
  IF c.BucketSize # 0 THEN c.BucketSize ELSE used_block_size(c)

tail_size(c) == block_size(c) - bucket_size(c)

are_blocks_aligned(c) == bucket_size(c) % alignof_block(c) = 0

cacheline == 64

\* initial_alignment without the cacheline
initial_alignment_of_block(c) ==
  IF are_blocks_aligned(c) THEN alignof_block(c) ELSE 1

initial_alignment(c) ==
  IF are_blocks_aligned(c)
  THEN (IF alignof_block(c) > cacheline THEN alignof_block(c) ELSE cacheline)
  ELSE 1

(***************************************************************************)
(* mcg_and_fastrange.                                                      *)
(***************************************************************************)
\* mcg_and_fastrange without the branch for m%8 in {4, 5}
mcg_and_fastrange_two_branches(m) ==
  m + (IF m % 8 <= 3 THEN 3 - (m % 8) ELSE 8 - (m % 8) + 3)

mcg_and_fastrange(m) ==
  m + (IF m % 8 <= 3 THEN 3 - (m % 8)
       ELSE IF m % 8 <= 5 THEN 5 - (m % 8)
       ELSE 8 - (m % 8) + 3)

\* prepare_hash leaving the hash as it is
prepare_hash_unchanged(hash) == hash

prepare_hash(hash) ==
  IF hash[1] % 2 = 1 THEN hash ELSE [hash EXCEPT ![1] = @ + 1]

\* the position returned and the hash left behind
next_position(hash, rng) ==
  LET r == mulx64(hash, ToBytes(rng, 8))
  IN  [pos |-> FromBytes(r.hi), hash |-> r.lo]

(***************************************************************************)
(* Sizes.                                                                  *)
(***************************************************************************)
\* requested_range rounding down, as its m/(bucket_size*CHAR_BIT) branch does
requested_range_floor(c, m) ==
  LET tail_bits == (used_block_size(c) - bucket_size(c)) * CHAR_BIT
      bucket_bits == bucket_size(c) * CHAR_BIT
      m1 == IF m > tail_bits THEN m - tail_bits ELSE m
  IN  m1 \div bucket_bits

\* requested_range without the subtraction of the tail bits
requested_range_whole(c, m) ==
  (m + bucket_size(c) * CHAR_BIT - 1) \div (bucket_size(c) * CHAR_BIT)

\* (the branch for m > SIZE_MAX - (bucket_bits - 1) needs an m beyond every
\* request of this model)
requested_range(c, m) ==
  LET tail_bits == (used_block_size(c) - bucket_size(c)) * CHAR_BIT
      bucket_bits == bucket_size(c) * CHAR_BIT
      m1 == IF m > tail_bits THEN m - tail_bits ELSE m
  IN  (m1 + bucket_bits - 1) \div bucket_bits

\* space_for without the tail of the last block
space_for_without_tail(c, rng) ==
  (initial_alignment(c) - 1) + rng * bucket_size(c)

space_for(c, rng) ==
  (initial_alignment(c) - 1) + rng * bucket_size(c) + tail_size(c)

\* the offset buckets_for adds to a pointer p
buckets_for(c, p) ==
  ((initial_alignment(c) - (p % initial_alignment(c))) % initial_alignment(c))

\* used_array_size without the test of rng
used_array_size_unguarded(c, rng) ==
  rng * bucket_size(c) + (used_block_size(c) - bucket_size(c))

used_array_size(c, rng) ==
  IF rng # 0
  THEN rng * bucket_size(c) + (used_block_size(c) - bucket_size(c))
  ELSE 0


(***************************************************************************)
(* block_base: the bit-extraction loop shared by block and multiblock.     *)
(***************************************************************************)
hash_width == 64

block_width(c) == c.blockBytes * CHAR_BIT

mask(c) == block_width(c) - 1

RECURSIVE bit_width(_)
bit_width(x) == IF x = 0 THEN 0 ELSE 1 + bit_width(x \div 2)

shift(c) == bit_width(mask(c))

rehash_k(c) == (hash_width - shift(c)) \div shift(c)

\* h & mask
masked(c, h) == h[1] % block_width(c)

\* the steps calling f before they shift
RECURSIVE loop_steps_late_shift(_, _, _)
loop_steps_late_shift(c, h, n) ==
  IF n = 0 THEN <<>>
  ELSE <<h>> \o loop_steps_late_shift(c, ShiftRight(h, shift(c)), n - 1)

\* the values h with which loop calls f, in order, over n steps from h
RECURSIVE loop_steps(_, _, _)
loop_steps(c, h, n) ==
  IF n = 0 THEN <<>>
  ELSE LET h1 == ShiftRight(h, shift(c))
       IN  <<h1>> \o loop_steps(c, h1, n - 1)

RECURSIVE loop_batches(_, _, _)
loop_batches(c, hash, i) ==
  IF i = 0 THEN loop_steps(c, hash, c.kp % rehash_k(c))
  ELSE loop_steps(c, hash, rehash_k(c))
         \o loop_batches(c, mulx64_mix(hash), i - 1)

loop(c, hash) == loop_batches(c, hash, c.kp \div rehash_k(c))

(***************************************************************************)
(* block<Block,K'>                                                         *)
(***************************************************************************)
RECURSIVE block_or(_, _, _, _)
block_or(c, x, hs, i) ==
  IF i > Len(hs) THEN x
  ELSE block_or(c, SetBit(x, masked(c, hs[i])), hs, i + 1)

block_mark(c, x, hash) == block_or(c, x, loop(c, hash), 1)

\* check answering true when any bit of the pattern is set
block_check_any(c, x, hash) ==
  LET fp == block_mark(c, Fill(c.blockBytes, 0), hash)
  IN  AndBytes(x, fp) # Fill(c.blockBytes, 0)

block_check(c, x, hash) ==
  LET fp == block_mark(c, Fill(c.blockBytes, 0), hash)
  IN  AndBytes(x, fp) = fp

(***************************************************************************)
(* multiblock<Block,K'>: element i of x takes the i-th index.              *)
(***************************************************************************)
RECURSIVE multiblock_or(_, _, _, _)
multiblock_or(c, x, hs, i) ==
  IF i > Len(hs) THEN x
  ELSE multiblock_or(
         c, SetBit(x, (i - 1) * block_width(c) + masked(c, hs[i])), hs, i + 1)

multiblock_mark(c, x, hash) == multiblock_or(c, x, loop(c, hash), 1)

\* res &= (x[i] >> (h & mask)), of which bit 0 is all that res = 1 lets through
RECURSIVE multiblock_and(_, _, _, _, _)
multiblock_and(c, x, hs, i, res) ==
  IF i > Len(hs) THEN res
  ELSE multiblock_and(
         c, x, hs, i + 1,
         IF TestBit(x, (i - 1) * block_width(c) + masked(c, hs[i]))
         THEN res ELSE 0)

multiblock_check(c, x, hash) == multiblock_and(c, x, loop(c, hash), 1, 1) # 0

(***************************************************************************)
(* block_base::next and the multiblock written with it: the variant of the *)
(* bit extraction in which the caller counts the indices.                  *)
(***************************************************************************)
\* next(i, h, hash): h and hash as it leaves them
next(c, i, h, hash) ==
  IF i # 0 /\ i % rehash_k(c) = 0
  THEN [h |-> mulx64_mix(hash), hash |-> mulx64_mix(hash)]
  ELSE [h |-> ShiftRight(h, shift(c)), hash |-> hash]

\* the values of h after next(i, h, hash) for i = i..k-1
RECURSIVE next_steps(_, _, _, _)
next_steps(c, i, h, hash) ==
  IF i >= c.kp THEN <<>>
  ELSE LET r == next(c, i, h, hash)
       IN  <<r.h>> \o next_steps(c, i + 1, r.h, r.hash)

multiblock_next_mark(c, x, hash) ==
  multiblock_or(c, x, next_steps(c, 0, hash, hash), 1)

multiblock_next_check(c, x, hash) ==
  multiblock_and(c, x, next_steps(c, 0, hash, hash), 1, 1) # 0


(***************************************************************************)
(* Vectors of 32-bit lanes, as byte sequences of 4 bytes per lane.         *)
(***************************************************************************)
Lane(v, l) == Slice(v, 4 * l, 4)

\* the sequences of L one after another
RECURSIVE Concat(_)
Concat(L) == IF L = <<>> THEN <<>> ELSE Head(L) \o Concat(Tail(L))

FromLanes(L) == Concat(L \o <<>>)

NumLanes(v) == Len(v) \div 4

\* lane-wise low 32 bits of the product (_mm256_mullo_epi32, vmulq_u32)
mullo_epi32(a, b) ==
  FromLanes([l \in 1..NumLanes(a) |->
               LowProduct(Lane(a, l - 1), Lane(b, l - 1), 4)])

\* lane-wise logical right shift by n (_mm256_srli_epi32, vshrq_n_u32)
srli_epi32(a, n) ==
  FromLanes([l \in 1..NumLanes(a) |->
               ShiftRight(
                 Slice(Lane(a, l - 1), n \div 8, 4 - (n \div 8))
                   \o Fill(n \div 8, 0),
                 n % 8)])

\* lane-wise left shift by the count in the same lane of cnt, counts below 32
\* (_mm256_sllv_epi32, vshlq_u32)
sllv_epi32(a, cnt) ==
  FromLanes([l \in 1..NumLanes(a) |->
               ShiftLeft(Lane(a, l - 1), Lane(cnt, l - 1)[1])])

NotBytes(x) == [i \in 1..Len(x) |-> 255 - x[i]] \o <<>>

\* _mm256_testc_si256(a,b): (~a & b) == 0
testc_si256(a, b) == AndBytes(NotBytes(a), b) = Fill(Len(a), 0)

\* vtstq_u32(a,b): all ones in the lanes where a & b is not zero
vtstq_u32(a, b) ==
  FromLanes([l \in 1..NumLanes(a) |->
               IF AndBytes(Lane(a, l - 1), Lane(b, l - 1)) # Fill(4, 0)
               THEN Fill(4, 255) ELSE Fill(4, 0)])

\* lanes 0..n-1 hold v, the others w
LanesUpTo(n, v, w, lanes) ==
  FromLanes([l \in 1..lanes |-> IF l <= n THEN v ELSE w])

(***************************************************************************)
(* fast_multiblock32<K'>, AVX2.                                            *)
(***************************************************************************)
\* _mm256_set_epi64x(e3,e2,e1,e0): e0 lies lowest
avx2_rehash ==
  <<49, 251, 107, 92, 71, 73, 252, 158>>
    \o <<75, 66, 241, 45, 199, 149, 84, 112>>
    \o <<157, 40, 183, 162, 91, 173, 36, 136>>
    \o <<145, 77, 151, 68, 123, 19, 182, 71>>

\* ones with a 1 in every lane
avx2_ones_all(kp) == LanesUpTo(8, <<1, 0, 0, 0>>, <<0, 0, 0, 0>>, 8)

avx2_ones(kp) == LanesUpTo(kp, <<1, 0, 0, 0>>, <<0, 0, 0, 0>>, 8)

avx2_masks(kp) == LanesUpTo(kp, <<0, 0, 0, 0>>, <<255, 255, 255, 255>>, 8)

make_m256i(hash, kp) ==
  LET h0 == hash \o hash \o hash \o hash
      h1 == mullo_epi32(avx2_rehash, h0)
      h2 == srli_epi32(h1, 32 - 5)
  IN  sllv_epi32(avx2_ones(kp), h2)

mark_m256i(x, hash, kp) == OrBytes(x, make_m256i(hash, kp))

check_m256i(x, hash, kp) ==
  IF kp = 8
  THEN testc_si256(x, make_m256i(hash, 8))
  ELSE LET h == make_m256i(hash, kp)
           y == OrBytes(avx2_masks(kp), x)
       IN  testc_si256(y, h)

RECURSIVE avx2_mark_chunks(_, _, _, _)
avx2_mark_chunks(c, x, hash, i) ==
  IF i < c.kp \div 8
  THEN avx2_mark_chunks(
         c, Patch(x, 32 * i, mark_m256i(Slice(x, 32 * i, 32), hash, 8)),
         mulx64_mix(hash), i + 1)
  ELSE IF c.kp % 8 # 0
       THEN Patch(x, 32 * i, mark_m256i(Slice(x, 32 * i, 32), hash, c.kp % 8))
       ELSE x

avx2_mark(c, x, hash) == avx2_mark_chunks(c, x, hash, 0)

RECURSIVE avx2_check_chunks(_, _, _, _)
avx2_check_chunks(c, x, hash, i) ==
  IF i < c.kp \div 8
  THEN IF ~check_m256i(Slice(x, 32 * i, 32), hash, 8) THEN FALSE
       ELSE avx2_check_chunks(c, x, mulx64_mix(hash), i + 1)
  ELSE IF c.kp % 8 # 0
       THEN check_m256i(Slice(x, 32 * i, 32), hash, c.kp % 8)
       ELSE TRUE

avx2_check(c, x, hash) == avx2_check_chunks(c, x, hash, 0)

(***************************************************************************)
(* fast_multiblock32<K'>, NEON: a uint32x4x2_t is val[0] then val[1].      *)
(***************************************************************************)
neon_rehash ==
  [val0 |-> FromLanes(<<<<49, 251, 107, 92>>, <<71, 73, 252, 158>>, <<75, 66, 241, 45>>, <<199, 149, 84, 112>>>>),
   val1 |-> FromLanes(<<<<157, 40, 183, 162>>, <<91, 173, 36, 136>>, <<145, 77, 151, 68>>, <<123, 19, 182, 71>>>>)]

neon_ones(kp) ==
  LET v == LanesUpTo(kp, <<1, 0, 0, 0>>, <<0, 0, 0, 0>>, 8)
  IN  [val0 |-> Slice(v, 0, 16), val1 |-> Slice(v, 16, 16)]

neon_masks(kp) ==
  LET v == LanesUpTo(kp, <<0, 0, 0, 0>>, <<255, 255, 255, 255>>, 8)
  IN  [val0 |-> Slice(v, 0, 16), val1 |-> Slice(v, 16, 16)]

\* make_uint32x4x2_t with the two halves of rehash taken for each other
make_uint32x4x2_t_swapped(hash, kp) ==
  LET h == hash \o hash
      h_lo == srli_epi32(mullo_epi32(h, neon_rehash.val1), 32 - 5)
      h_hi == srli_epi32(mullo_epi32(h, neon_rehash.val0), 32 - 5)
  IN  [val0 |-> sllv_epi32(neon_ones(kp).val0, h_lo),
       val1 |-> sllv_epi32(neon_ones(kp).val1, h_hi)]

make_uint32x4x2_t(hash, kp) ==
  LET h == hash \o hash
      h_lo == srli_epi32(mullo_epi32(h, neon_rehash.val0), 32 - 5)
      h_hi == srli_epi32(mullo_epi32(h, neon_rehash.val1), 32 - 5)
  IN  [val0 |-> sllv_epi32(neon_ones(kp).val0, h_lo),
       val1 |-> sllv_epi32(neon_ones(kp).val1, h_hi)]

mark_uint32x4x2_t(x, hash, kp) ==
  LET h == make_uint32x4x2_t(hash, kp)
  IN  OrBytes(Slice(x, 0, 16), h.val0) \o OrBytes(Slice(x, 16, 16), h.val1)

check_uint32x4x2_t(x, hash, kp) ==
  LET h == make_uint32x4x2_t(hash, kp)
      lo0 == vtstq_u32(Slice(x, 0, 16), h.val0)
      hi0 == vtstq_u32(Slice(x, 16, 16), h.val1)
      lo == IF kp # 8 THEN OrBytes(lo0, neon_masks(kp).val0) ELSE lo0
      hi == IF kp # 8 THEN OrBytes(hi0, neon_masks(kp).val1) ELSE hi0
      res == AndBytes(lo, hi)
  IN  AndBytes(Slice(res, 0, 8), Slice(res, 8, 8)) = Fill(8, 255)

RECURSIVE neon_mark_chunks(_, _, _, _)
neon_mark_chunks(c, x, hash, i) ==
  IF i < c.kp \div 8
  THEN neon_mark_chunks(
         c, Patch(x, 32 * i, mark_uint32x4x2_t(Slice(x, 32 * i, 32), hash, 8)),
         mulx64_mix(hash), i + 1)
  ELSE IF c.kp % 8 # 0
       THEN Patch(x, 32 * i,
                  mark_uint32x4x2_t(Slice(x, 32 * i, 32), hash, c.kp % 8))
       ELSE x

neon_mark(c, x, hash) == neon_mark_chunks(c, x, hash, 0)

RECURSIVE neon_check_chunks(_, _, _, _)
neon_check_chunks(c, x, hash, i) ==
  IF i < c.kp \div 8
  THEN IF ~check_uint32x4x2_t(Slice(x, 32 * i, 32), hash, 8) THEN FALSE
       ELSE neon_check_chunks(c, x, mulx64_mix(hash), i + 1)
  ELSE IF c.kp % 8 # 0
       THEN check_uint32x4x2_t(Slice(x, 32 * i, 32), hash, c.kp % 8)
       ELSE TRUE

neon_check(c, x, hash) == neon_check_chunks(c, x, hash, 0)

(***************************************************************************)
(* Subfilter::mark and Subfilter::check of the selection c, on a value x   *)
(* of block_size(c) bytes.  Without AVX2 or NEON fast_multiblock32<K'> is  *)
(* multiblock<uint32_t,K'>.                                                *)
(***************************************************************************)
mark(c, x, hash) ==
  CASE c.sub = "block" -> block_mark(c, x, hash)
    [] c.sub = "multiblock" /\ c.impl = "next" -> multiblock_next_mark(c, x, hash)
    [] c.sub = "multiblock" -> multiblock_mark(c, x, hash)
    [] c.sub = "fast_multiblock32" /\ c.impl = "avx2" -> avx2_mark(c, x, hash)
    [] c.sub = "fast_multiblock32" /\ c.impl = "neon" -> neon_mark(c, x, hash)
    [] OTHER -> multiblock_mark(c, x, hash)

check(c, x, hash) ==
  CASE c.sub = "block" -> block_check(c, x, hash)
    [] c.sub = "multiblock" /\ c.impl = "next" -> multiblock_next_check(c, x, hash)
    [] c.sub = "multiblock" -> multiblock_check(c, x, hash)
    [] c.sub = "fast_multiblock32" /\ c.impl = "avx2" -> avx2_check(c, x, hash)
    [] c.sub = "fast_multiblock32" /\ c.impl = "neon" -> neon_check(c, x, hash)
    [] OTHER -> multiblock_check(c, x, hash)


(***************************************************************************)
(* The objects of the model.                                               *)
(***************************************************************************)
NULL == 0

FilterIds == {1, 2}
AllocIds == {1, 2}
BufIds == {1, 2, 3}

\* The memory the allocators hand out: three regions.  Their addresses
\* differ in alignment and the bytes they hold before a filter writes them
\* differ, so that a filter and its copy never share padding or garbage.
Pool ==
  [b \in BufIds |-> [live |-> FALSE, al |-> 0, mem |-> <<>>,
                     addr |-> 127 + b, fill |-> IF b = 2 THEN 255 ELSE 0,
                     bad |-> FALSE]]

\* where the linker puts the static dummy array
DummyAddr == 193

HashTable ==
  << <<16, 50, 84, 118, 152, 186, 220, 254>>,
     <<1, 35, 69, 103, 137, 171, 205, 239>>,
     <<255, 255, 255, 255, 255, 255, 255, 63>>,
     <<0, 0, 0, 0, 0, 0, 0, 128>> >>

Hashes == {HashTable[i] : i \in 1..MaxHashes}

\* the hashes looked up: those inserted and others
AllHashes == {HashTable[i] : i \in 1..Len(HashTable)}

\* the array zero-initialised, as statics are without the initialiser x=-1
DummyBytesZeroed(c) == Fill(space_for(c, mcg_and_fastrange(0)), 0)

\* static struct {unsigned char x=-1;} dummy[space_for(hash_strategy{0}.range())]
DummyBytes(c) == Fill(space_for(c, mcg_and_fastrange(0)), 255)

DeadFilter ==
  [alive |-> FALSE, al |-> 0, rng |-> 0, data |-> NULL,
   buckets |-> [buf |-> NULL, off |-> 0]]

\* the machine: what an operation reads and writes
Machine ==
  [flt |-> flt, heap |-> heap, dummy |-> dummy, allocs |-> 0, frees |-> 0]

\* memory a pointer into buffer buf (NULL: the static dummy array) refers to
MemOf(M, buf) == IF buf = NULL THEN M.dummy.mem ELSE M.heap[buf].mem

WriteMem(M, buf, mem) ==
  IF buf = NULL THEN [M EXCEPT !.dummy.mem = mem]
  ELSE [M EXCEPT !.heap[buf].mem = mem]

\* memset/memcpy of bytes w to the pointer ptr; no byte is written when w is empty
Store(M, ptr, w) ==
  IF Len(w) = 0 THEN M
  ELSE WriteMem(M, ptr.buf, Patch(MemOf(M, ptr.buf), ptr.off, w))

Load(M, ptr, n) == Slice(MemOf(M, ptr.buf), ptr.off, n)

(***************************************************************************)
(* filter_core: private members.                                           *)
(***************************************************************************)
range(fl) == IF fl.data # NULL THEN fl.rng ELSE 0

\* capacity counting the buckets and not the tail of the last block
capacity_without_tail(c, fl) == range(fl) * bucket_size(c) * CHAR_BIT

capacity(c, fl) == used_array_size(c, range(fl)) * CHAR_BIT

\* the region an allocation returns: the first one not in use
FreshBuf(M) ==
  CHOOSE b \in BufIds :
    ~M.heap[b].live /\ \A b2 \in BufIds : ~M.heap[b2].live => b <= b2

\* allocator_allocate(al, n): n bytes, holding what the region held
allocator_allocate(M, al, n) ==
  [M EXCEPT !.heap[FreshBuf(M)].live = TRUE,
            !.heap[FreshBuf(M)].al = al,
            !.heap[FreshBuf(M)].mem = Fill(n, M.heap[FreshBuf(M)].fill),
            !.allocs = @ + 1]

\* allocator_deallocate(al, p, n); bad remembers a region given back twice, to
\* another allocator than the one it came from, or with another size
allocator_deallocate(M, al, p, n) ==
  [M EXCEPT !.heap[p].live = FALSE, !.heap[p].al = 0, !.heap[p].mem = <<>>,
            !.heap[p].bad = @ \/ ~M.heap[p].live \/ M.heap[p].al # al
                              \/ Len(M.heap[p].mem) # n,
            !.frees = @ + 1]

\* the machine after new_array(al, rng) and the filter_array it returns
new_array(c, M, al, rng) ==
  IF rng # 0
  THEN [M |-> allocator_allocate(M, al, space_for(c, rng)),
        ar |-> [data |-> FreshBuf(M),
                buckets |-> [buf |-> FreshBuf(M),
                             off |-> buckets_for(c, M.heap[FreshBuf(M)].addr)]]]
  ELSE [M |-> M,
        ar |-> [data |-> NULL,
                buckets |-> [buf |-> NULL, off |-> buckets_for(c, M.dummy.addr)]]]

\* delete_array giving the used bytes as the size
delete_array_used_size(c, M, f) ==
  IF M.flt[f].data # NULL
  THEN allocator_deallocate(M, M.flt[f].al, M.flt[f].data,
                            used_array_size(c, range(M.flt[f])))
  ELSE M

delete_array(c, M, f) ==
  IF M.flt[f].data # NULL
  THEN allocator_deallocate(M, M.flt[f].al, M.flt[f].data,
                            space_for(c, range(M.flt[f])))
  ELSE M

\* clear_bytes zeroing range() buckets and not the tail of the last block
clear_bytes_without_tail(c, M, f) ==
  Store(M, M.flt[f].buckets, Fill(range(M.flt[f]) * bucket_size(c), 0))

clear_bytes(c, M, f) ==
  Store(M, M.flt[f].buckets, Fill(used_array_size(c, range(M.flt[f])), 0))

copy_bytes(c, M, f, x) ==
  Store(M, M.flt[f].buckets,
        Load(M, M.flt[x].buckets, used_array_size(c, range(M.flt[f]))))

SetArray(M, f, hs, ar) ==
  [M EXCEPT !.flt[f].rng = hs, !.flt[f].data = ar.data,
            !.flt[f].buckets = ar.buckets]

(***************************************************************************)
(* get, set, next_element.                                                 *)
(***************************************************************************)
get(c, mem, p, hash) ==
  IF are_blocks_aligned(c)
  THEN check(c, Slice(mem, p, block_size(c)), hash)
  ELSE LET x == Slice(mem, p, block_size(c)) IN check(c, x, hash)

\* set storing the marked empty block instead of the marked block
set_overwrites(c, mem, p, hash) ==
  Patch(mem, p, mark(c, Fill(block_size(c), 0), hash))

set(c, mem, p, hash) ==
  IF are_blocks_aligned(c)
  THEN Patch(mem, p, mark(c, Slice(mem, p, block_size(c)), hash))
  ELSE LET x == Slice(mem, p, block_size(c))
       IN  Patch(mem, p, mark(c, x, hash))

\* the offset of the bucket selected and the hash left behind
next_element(c, fl, hash) ==
  LET np == next_position(hash, fl.rng)
  IN  [p |-> fl.buckets.off + np.pos * bucket_size(c), hash |-> np.hash]

(***************************************************************************)
(* insert and may_contain on the memory mem the buckets pointer refers to. *)
(***************************************************************************)
\* n counts the rounds left, as the loop's for(auto n=k;n--;)
\* insert with the null test made in every round, as the header once had it
RECURSIVE insert_rounds_every(_, _, _, _, _, _)
insert_rounds_every(c, fl, mem, hash, n, trace) ==
  IF n = 0 THEN [mem |-> mem, trace |-> trace]
  ELSE LET e == next_element(c, fl, hash)
           t2 == Append(Append(trace, "prefetch"), "nullcheck")
       IN  IF fl.data = NULL
           THEN [mem |-> mem, trace |-> t2]
           ELSE insert_rounds_every(c, fl, set(c, mem, e.p, e.hash), e.hash, n - 1,
                                    Append(t2, "set"))

RECURSIVE insert_rounds(_, _, _, _, _, _)
insert_rounds(c, fl, mem, hash, n, trace) ==
  IF n = 0 THEN [mem |-> mem, trace |-> trace]
  ELSE LET e == next_element(c, fl, hash)
           first == (n - 1 = c.K - 1)
           t1 == Append(trace, "prefetch")
           t2 == IF first THEN Append(t1, "nullcheck") ELSE t1
       IN  IF first /\ fl.data = NULL
           THEN [mem |-> mem, trace |-> t2]
           ELSE insert_rounds(c, fl, set(c, mem, e.p, e.hash), e.hash, n - 1,
                              Append(t2, "set"))

insert(c, fl, mem, hash) ==
  insert_rounds(c, fl, mem, prepare_hash(hash), c.K, <<>>)

\* the lookup testing each bucket with the hash of the round after it
RECURSIVE may_contain_rounds_late(_, _, _, _, _, _)
may_contain_rounds_late(c, fl, mem, p0, hash, n) ==
  IF n = 0 THEN get(c, mem, p0, hash)
  ELSE LET e == next_element(c, fl, hash)
       IN  IF ~get(c, mem, p0, e.hash) THEN FALSE
           ELSE may_contain_rounds_late(c, fl, mem, e.p, e.hash, n - 1)

RECURSIVE may_contain_rounds(_, _, _, _, _, _)
may_contain_rounds(c, fl, mem, p0, hash, n) ==
  IF n = 0 THEN get(c, mem, p0, hash)
  ELSE LET e == next_element(c, fl, hash)
       IN  IF ~get(c, mem, p0, hash) THEN FALSE
           ELSE may_contain_rounds(c, fl, mem, e.p, e.hash, n - 1)

\* the lookup that tests the first bucket only
may_contain_first_round(c, fl, mem, hash) ==
  LET e == next_element(c, fl, prepare_hash(hash))
  IN  get(c, mem, e.p, e.hash)

may_contain(c, fl, mem, hash) ==
  LET e == next_element(c, fl, prepare_hash(hash))
  IN  may_contain_rounds(c, fl, mem, e.p, e.hash, c.K - 1)


\* may_contain as its #else branch has it: one next_element and one get per
\* round
RECURSIVE may_contain_plain_rounds(_, _, _, _, _)
may_contain_plain_rounds(c, fl, mem, hash, n) ==
  IF n = 0 THEN TRUE
  ELSE LET e == next_element(c, fl, hash)
       IN  IF ~get(c, mem, e.p, e.hash) THEN FALSE
           ELSE may_contain_plain_rounds(c, fl, mem, e.hash, n - 1)

may_contain_plain(c, fl, mem, hash) ==
  may_contain_plain_rounds(c, fl, mem, prepare_hash(hash), c.K)

\* the (offset, hash) pairs get is called with by the #if 1 branch, and what
\* it returns
RECURSIVE may_contain_gets(_, _, _, _, _, _, _)
may_contain_gets(c, fl, mem, p0, hash, n, gets) ==
  IF n = 0
  THEN [ret |-> get(c, mem, p0, hash), gets |-> Append(gets, <<p0, hash>>)]
  ELSE LET e == next_element(c, fl, hash)
       IN  IF ~get(c, mem, p0, hash)
           THEN [ret |-> FALSE, gets |-> Append(gets, <<p0, hash>>)]
           ELSE may_contain_gets(c, fl, mem, e.p, e.hash, n - 1,
                                 Append(gets, <<p0, hash>>))

\* the (offset, hash) pairs set is called with by insert
RECURSIVE insert_sets(_, _, _, _)
insert_sets(c, fl, hash, n) ==
  IF n = 0 THEN <<>>
  ELSE LET e == next_element(c, fl, hash)
       IN  IF n - 1 = c.K - 1 /\ fl.data = NULL THEN <<>>
           ELSE <<<<e.p, e.hash>>>> \o insert_sets(c, fl, e.hash, n - 1)

(***************************************************************************)
(* may_contain in the steps a thread takes through it: the part up to the  *)
(* loop, and one pass of the loop or the get after it.                     *)
(***************************************************************************)
may_contain_begin(c, fl, hash) ==
  LET e == next_element(c, fl, prepare_hash(hash))
  IN  [p0 |-> e.p, hash |-> e.hash, n |-> c.K - 1]

\* a pass testing the bucket with the hash next_element has left
may_contain_step_late(c, fl, mem, r) ==
  IF r.n = 0
  THEN [done |-> TRUE, ret |-> get(c, mem, r.p0, r.hash),
        p0 |-> r.p0, hash |-> r.hash, n |-> 0]
  ELSE LET e == next_element(c, fl, r.hash)
       IN  IF ~get(c, mem, r.p0, e.hash)
           THEN [done |-> TRUE, ret |-> FALSE, p0 |-> e.p, hash |-> e.hash, n |-> r.n]
           ELSE [done |-> FALSE, ret |-> FALSE, p0 |-> e.p, hash |-> e.hash,
                 n |-> r.n - 1]

may_contain_step(c, fl, mem, r) ==
  IF r.n = 0
  THEN [done |-> TRUE, ret |-> get(c, mem, r.p0, r.hash),
        p0 |-> r.p0, hash |-> r.hash, n |-> 0]
  ELSE LET e == next_element(c, fl, r.hash)
       IN  IF ~get(c, mem, r.p0, r.hash)
           THEN [done |-> TRUE, ret |-> FALSE, p0 |-> e.p, hash |-> e.hash, n |-> r.n]
           ELSE [done |-> FALSE, ret |-> FALSE, p0 |-> e.p, hash |-> e.hash,
                 n |-> r.n - 1]

(***************************************************************************)
(* filter_core: public members, as functions of the machine.  f and x are  *)
(* the identities of *this and of the argument.                            *)
(***************************************************************************)
ctor(c, M, f, m, al) ==
  LET hs == mcg_and_fastrange(requested_range(c, m))
      na == new_array(c, M, al, IF m # 0 THEN hs ELSE 0)
      M1 == [na.M EXCEPT !.flt[f] =
               [alive |-> TRUE, al |-> al, rng |-> hs, data |-> na.ar.data,
                buckets |-> na.ar.buckets]]
  IN  clear_bytes(c, M1, f)

\* the copy constructor taking x's array for its own
copy_ctor_shallow(c, M, f, x, al) ==
  [M EXCEPT !.flt[f] =
     [alive |-> TRUE, al |-> al, rng |-> M.flt[x].rng,
      data |-> M.flt[x].data, buckets |-> M.flt[x].buckets]]

copy_ctor(c, M, f, x, al) ==
  LET na == new_array(c, M, al, range(M.flt[x]))
      M1 == [na.M EXCEPT !.flt[f] =
               [alive |-> TRUE, al |-> al, rng |-> M.flt[x].rng,
                data |-> na.ar.data, buckets |-> na.ar.buckets]]
  IN  copy_bytes(c, M1, f, x)

\* the move constructor leaving x its array
move_ctor_keeps_source(c, M, f, x, al) ==
  LET fx == M.flt[x]
      M0 == [M EXCEPT !.flt[f] =
               [alive |-> TRUE, al |-> al, rng |-> fx.rng, data |-> NULL,
                buckets |-> [buf |-> NULL, off |-> 0]]]
  IN  IF al = fx.al
      THEN SetArray(M0, f, fx.rng, [data |-> fx.data, buckets |-> fx.buckets])
      ELSE LET na == new_array(c, M0, al, range(fx))
           IN  copy_bytes(c, SetArray(na.M, f, fx.rng, na.ar), f, x)

move_ctor(c, M, f, x, al) ==
  LET fx == M.flt[x]
      empty_ar == new_array(c, M, fx.al, 0).ar
      M0 == [M EXCEPT !.flt[f] =
               [alive |-> TRUE, al |-> al, rng |-> fx.rng, data |-> NULL,
                buckets |-> [buf |-> NULL, off |-> 0]]]
      M1 == IF al = fx.al
            THEN SetArray(M0, f, fx.rng, [data |-> fx.data, buckets |-> fx.buckets])
            ELSE LET na == new_array(c, M0, al, range(fx))
                 IN  delete_array(c, copy_bytes(c, SetArray(na.M, f, fx.rng, na.ar), f, x), x)
  IN  SetArray(M1, x, mcg_and_fastrange(0), empty_ar)

dtor(c, M, f) == [delete_array(c, M, f) EXCEPT !.flt[f] = DeadFilter]

copy_assign(c, M, f, x) ==
  IF f = x THEN M
  ELSE LET ft == M.flt[f]
           fx == M.flt[x]
           replace(a) ==
             LET na == new_array(c, M, a, range(fx))
             IN  SetArray(delete_array(c, na.M, f), f, fx.rng, na.ar)
           M1 == IF c.pocca
                 THEN LET M2 == IF ft.al # fx.al \/ range(ft) # range(fx)
                                THEN replace(fx.al) ELSE M
                      IN  [M2 EXCEPT !.flt[f].al = fx.al]
                 ELSE IF range(ft) # range(fx) THEN replace(ft.al) ELSE M
       IN  copy_bytes(c, M1, f, x)

move_assign(c, M, f, x) ==
  IF f = x THEN M
  ELSE LET ft == M.flt[f]
           fx == M.flt[x]
           empty_ar == new_array(c, M, fx.al, 0).ar
           M1 == IF c.pocma \/ ft.al = fx.al
                 THEN LET M2 == delete_array(c, M, f)
                          M3 == IF c.pocma THEN [M2 EXCEPT !.flt[f].al = fx.al] ELSE M2
                      IN  SetArray(M3, f, fx.rng, [data |-> fx.data, buckets |-> fx.buckets])
                 ELSE LET M2 == IF range(ft) # range(fx)
                                THEN LET na == new_array(c, M, ft.al, range(fx))
                                     IN  SetArray(delete_array(c, na.M, f), f, fx.rng, na.ar)
                                ELSE M
                      IN  delete_array(c, copy_bytes(c, M2, f, x), x)
       IN  SetArray(M1, x, mcg_and_fastrange(0), empty_ar)

swap(c, M, f, x) ==
  LET ft == M.flt[f]
      fx == M.flt[x]
      M1 == IF c.pocs THEN [M EXCEPT !.flt[f].al = fx.al, !.flt[x].al = ft.al] ELSE M
  IN  [M1 EXCEPT !.flt[f].rng = fx.rng, !.flt[f].data = fx.data,
                 !.flt[f].buckets = fx.buckets,
                 !.flt[x].rng = ft.rng, !.flt[x].data = ft.data,
                 !.flt[x].buckets = ft.buckets]

clear(c, M, f) == clear_bytes(c, M, f)

\* reset replacing the array whatever the new range
reset_always_replaces(c, M, f, m) ==
  LET new_hs == mcg_and_fastrange(requested_range(c, m))
      rng == IF m # 0 THEN new_hs ELSE 0
      na == new_array(c, M, M.flt[f].al, rng)
  IN  clear_bytes(c, SetArray(delete_array(c, na.M, f), f, new_hs, na.ar), f)

reset(c, M, f, m) ==
  LET new_hs == mcg_and_fastrange(requested_range(c, m))
      rng == IF m # 0 THEN new_hs ELSE 0
      M1 == IF rng # range(M.flt[f])
            THEN LET na == new_array(c, M, M.flt[f].al, rng)
                 IN  SetArray(delete_array(c, na.M, f), f, new_hs, na.ar)
            ELSE M
  IN  clear_bytes(c, M1, f)

\* combine writing the right operand's bytes over the left operand's
combine_assigns(c, M, f, x, op) ==
  Store(M, M.flt[f].buckets,
        Load(M, M.flt[x].buckets, used_array_size(c, range(M.flt[f]))))

\* combine(x, f): the bytes of *this after the loop over the used array
combine(c, M, f, x, op) ==
  LET n == used_array_size(c, range(M.flt[f]))
      a == Load(M, M.flt[f].buckets, n)
      b == Load(M, M.flt[x].buckets, n)
  IN  Store(M, M.flt[f].buckets,
            IF op = "and" THEN AndBytes(a, b) ELSE OrBytes(a, b))

\* combine refusing only when exactly one of the two filters has no array
combine_throws_on_empty(M, f, x) ==
  (M.flt[f].data = NULL) # (M.flt[x].data = NULL)

combine_throws(M, f, x) == range(M.flt[f]) # range(M.flt[x])

\* operator== comparing the ranges and not the bytes
equal_ranges_only(c, M, x, y) == range(M.flt[x]) = range(M.flt[y])

equal(c, M, x, y) ==
  IF range(M.flt[x]) # range(M.flt[y]) THEN FALSE
  ELSE IF M.flt[x].data = NULL THEN TRUE
  ELSE Load(M, M.flt[x].buckets, used_array_size(c, range(M.flt[x])))
         = Load(M, M.flt[y].buckets, used_array_size(c, range(M.flt[x])))

(***************************************************************************)
(* The operations that allocate, under an allocator whose allocate throws  *)
(* when ok is false.  Each gives the machine where the operation returns   *)
(* or where the exception leaves it: the statements before the throwing    *)
(* new_array have run, those after it have not.                            *)
(***************************************************************************)
new_array_may_throw(c, M, al, rng, ok) ==
  IF rng # 0 /\ ~ok
  THEN [M |-> M, ar |-> [data |-> NULL, buckets |-> [buf |-> NULL, off |-> 0]],
        thrown |-> TRUE]
  ELSE [M |-> new_array(c, M, al, rng).M, ar |-> new_array(c, M, al, rng).ar,
        thrown |-> FALSE]

reset_may_throw(c, M, f, m, ok) ==
  LET new_hs == mcg_and_fastrange(requested_range(c, m))
      rng == IF m # 0 THEN new_hs ELSE 0
  IN  IF rng # range(M.flt[f])
      THEN LET na == new_array_may_throw(c, M, M.flt[f].al, rng, ok)
           IN  IF na.thrown THEN [M |-> na.M, thrown |-> TRUE]
               ELSE [M |-> clear_bytes(c, SetArray(delete_array(c, na.M, f),
                                                   f, new_hs, na.ar), f),
                     thrown |-> FALSE]
      ELSE [M |-> clear_bytes(c, M, f), thrown |-> FALSE]

\* copy assignment deallocating the old array before obtaining the new one
copy_assign_frees_first(c, M, f, x, ok) ==
  IF f = x THEN [M |-> M, thrown |-> FALSE]
  ELSE LET ft == M.flt[f]
           fx == M.flt[x]
           a == IF c.pocca THEN fx.al ELSE ft.al
           M0 == delete_array(c, M, f)
           na == new_array_may_throw(c, M0, a, range(fx), ok)
       IN  IF (IF c.pocca THEN ft.al # fx.al \/ range(ft) # range(fx)
               ELSE range(ft) # range(fx))
           THEN IF na.thrown THEN [M |-> na.M, thrown |-> TRUE]
                ELSE [M |-> copy_bytes(c, [SetArray(na.M, f, fx.rng, na.ar)
                                             EXCEPT !.flt[f].al = a], f, x),
                      thrown |-> FALSE]
           ELSE [M |-> copy_bytes(c, [M EXCEPT !.flt[f].al = a], f, x),
                 thrown |-> FALSE]

copy_assign_may_throw(c, M, f, x, ok) ==
  IF f = x THEN [M |-> M, thrown |-> FALSE]
  ELSE LET ft == M.flt[f]
           fx == M.flt[x]
           a == IF c.pocca THEN fx.al ELSE ft.al
           na == new_array_may_throw(c, M, a, range(fx), ok)
       IN  IF (IF c.pocca THEN ft.al # fx.al \/ range(ft) # range(fx)
               ELSE range(ft) # range(fx))
           THEN IF na.thrown THEN [M |-> na.M, thrown |-> TRUE]
                ELSE [M |-> copy_bytes(c, [SetArray(delete_array(c, na.M, f),
                                                    f, fx.rng, na.ar)
                                             EXCEPT !.flt[f].al = a], f, x),
                      thrown |-> FALSE]
           ELSE [M |-> copy_bytes(c, [M EXCEPT !.flt[f].al = a], f, x),
                 thrown |-> FALSE]

move_assign_may_throw(c, M, f, x, ok) ==
  IF f = x THEN [M |-> M, thrown |-> FALSE]
  ELSE LET ft == M.flt[f]
           fx == M.flt[x]
           empty_ar == new_array(c, M, fx.al, 0).ar
           na == new_array_may_throw(c, M, ft.al, range(fx), ok)
       IN  IF ~(c.pocma \/ ft.al = fx.al) /\ range(ft) # range(fx) /\ na.thrown
           THEN [M |-> na.M, thrown |-> TRUE]
           ELSE [M |-> move_assign(c, M, f, x), thrown |-> FALSE]

\* insert and may_contain of filter f
Insert(c, M, f, hash) ==
  LET r == insert(c, M.flt[f], MemOf(M, M.flt[f].buckets.buf), hash)
  IN  [M |-> IF r.mem = MemOf(M, M.flt[f].buckets.buf) THEN M
             ELSE WriteMem(M, M.flt[f].buckets.buf, r.mem),
       trace |-> r.trace]

MayContain(c, M, f, hash) ==
  may_contain(c, M.flt[f], MemOf(M, M.flt[f].buckets.buf), hash)

\* the span array() returns
array(c, M, f) ==
  [ptr |-> M.flt[f].buckets, size |-> capacity(c, M.flt[f]) \div CHAR_BIT]

capacity_for(c, m) ==
  IF m = 0 THEN 0
  ELSE used_array_size(c, mcg_and_fastrange(requested_range(c, m))) * CHAR_BIT


(***************************************************************************)
(* capacity_for and fpr_for.  A double is the fraction num/den when it is  *)
(* given or returned exactly, and the term fpr_for_c(num/den) when it is   *)
(* the sum of the series for an array of w bits per block and k rounds.    *)
(***************************************************************************)
Double(num, den) == [kind |-> "exact", num |-> num, den |-> den]

fpr_for_c(c, num, den) ==
  [kind |-> "fpr_for_c", num |-> num, den |-> den,
   w |-> (2 * used_block_size(c) - bucket_size(c)) * CHAR_BIT, k |-> c.K]

fpr_for(c, n, m) ==
  IF n = 0 THEN Double(0, 1)
  ELSE IF m = 0 THEN Double(1, 1)
  ELSE fpr_for_c(c, m, n)

\* fpr>=0.0&&fpr<=1.0
fpr_in_range(fpr) == fpr.num >= 0 /\ fpr.num <= fpr.den

\* unadjusted_capacity_for testing n before the assertion
unadjusted_capacity_for_late_assert(n, fpr, asserts, u) ==
  IF n = 0 THEN [asserted |-> FALSE, m |-> 0]
  ELSE IF asserts /\ ~fpr_in_range(fpr) THEN [asserted |-> TRUE, m |-> 0]
  ELSE IF fpr.num = fpr.den THEN [asserted |-> FALSE, m |-> 0]
  ELSE [asserted |-> FALSE, m |-> u]

\* unadjusted_capacity_for(n, fpr) in a build where BOOST_ASSERT is active
\* (asserts) or expands to nothing, u being what the floating-point
\* bracketing and bisection arrive at
unadjusted_capacity_for(n, fpr, asserts, u) ==
  IF asserts /\ ~fpr_in_range(fpr) THEN [asserted |-> TRUE, m |-> 0]
  ELSE IF n = 0 THEN [asserted |-> FALSE, m |-> 0]
  ELSE IF fpr.num = fpr.den THEN [asserted |-> FALSE, m |-> 0]
  ELSE [asserted |-> FALSE, m |-> u]

(***************************************************************************)
(* The state machine.  cfg is the template instantiation, flt the filter   *)
(* objects, heap the allocators' memory, dummy the static array of         *)
(* new_array, ins the hashes inserted into each filter since it was last   *)
(* emptied (history), last the operation just performed.                   *)
(***************************************************************************)
\* the threads calling the const members
Readers == {1, 2}

IdleReader ==
  [pc |-> "idle", op |-> "none", f |-> 0, h |-> <<>>, hash |-> <<>>,
   p0 |-> 0, n |-> 0, ret |-> FALSE, size |-> 0]

NoOp ==
  [op |-> "init", m |-> 0, trace |-> <<>>, allocs |-> 0, frees |-> 0,
   thrown |-> FALSE, n |-> 0, fpr |-> Double(0, 1), ret |-> Double(0, 1),
   size |-> 0, asserted |-> FALSE]

Init ==
  /\ cfg \in ConfigIds
  /\ flt = [f \in FilterIds |-> DeadFilter]
  /\ heap = Pool
  /\ dummy = [addr |-> DummyAddr, mem |-> DummyBytes(Configs[cfg])]
  /\ ins = [f \in FilterIds |-> {}]
  /\ last = NoOp
  /\ rd = [t \in Readers |-> IdleReader]

\* the machine M becomes the state; l says what was done
Becomes(M, l) ==
  /\ flt' = M.flt
  /\ heap' = M.heap
  /\ dummy' = M.dummy
  /\ last' = [l EXCEPT !.allocs = M.allocs, !.frees = M.frees]
  /\ UNCHANGED <<cfg, rd>>

\* an allocation needs a region not in use
CanAllocate == \E b \in BufIds : ~heap[b].live

Construct(f, m, al) ==
  /\ ~flt[f].alive
  /\ CanAllocate
  /\ Becomes(ctor(Configs[cfg], Machine, f, m, al),
             [NoOp EXCEPT !.op = "ctor", !.m = m])
  /\ ins' = [ins EXCEPT ![f] = {}]

\* filter_core(n, fpr, al), u being what unadjusted_capacity_for(n, fpr) returns
ConstructFor(f, u, al) ==
  /\ ~flt[f].alive
  /\ CanAllocate
  /\ Becomes(ctor(Configs[cfg], Machine, f, u, al),
             [NoOp EXCEPT !.op = "ctor_fpr", !.m = u])
  /\ ins' = [ins EXCEPT ![f] = {}]

CopyConstruct(f, x, al) ==
  /\ ~flt[f].alive /\ flt[x].alive
  /\ CanAllocate
  /\ Becomes(copy_ctor(Configs[cfg], Machine, f, x, al),
             [NoOp EXCEPT !.op = "copy_ctor"])
  /\ ins' = [ins EXCEPT ![f] = ins[x]]

MoveConstruct(f, x, al) ==
  /\ ~flt[f].alive /\ flt[x].alive
  /\ CanAllocate
  /\ Becomes(move_ctor(Configs[cfg], Machine, f, x, al),
             [NoOp EXCEPT !.op = "move_ctor"])
  /\ ins' = [ins EXCEPT ![f] = ins[x], ![x] = {}]

Destroy(f) ==
  /\ flt[f].alive
  /\ Becomes(dtor(Configs[cfg], Machine, f), [NoOp EXCEPT !.op = "dtor"])
  /\ ins' = [ins EXCEPT ![f] = {}]

CopyAssign(f, x) ==
  /\ flt[f].alive /\ flt[x].alive
  /\ CanAllocate
  /\ Becomes(copy_assign(Configs[cfg], Machine, f, x),
             [NoOp EXCEPT !.op = "copy_assign"])
  /\ ins' = [ins EXCEPT ![f] = ins[x]]

MoveAssign(f, x) ==
  /\ flt[f].alive /\ flt[x].alive
  /\ CanAllocate
  /\ Becomes(move_assign(Configs[cfg], Machine, f, x),
             [NoOp EXCEPT !.op = "move_assign"])
  /\ ins' = IF f = x THEN ins ELSE [ins EXCEPT ![f] = ins[x], ![x] = {}]

\* without propagation swap requires equal allocators
Swap(f, x) ==
  /\ flt[f].alive /\ flt[x].alive
  /\ Configs[cfg].pocs \/ flt[f].al = flt[x].al
  /\ Becomes(swap(Configs[cfg], Machine, f, x), [NoOp EXCEPT !.op = "swap"])
  /\ ins' = [ins EXCEPT ![f] = ins[x], ![x] = ins[f]]

DoInsert(f, hash) ==
  /\ flt[f].alive
  /\ LET r == Insert(Configs[cfg], Machine, f, hash)
     IN  Becomes(r.M, [NoOp EXCEPT !.op = "insert", !.trace = r.trace])
  /\ ins' = [ins EXCEPT ![f] = @ \cup {hash}]

Clear(f) ==
  /\ flt[f].alive
  /\ Becomes(clear(Configs[cfg], Machine, f), [NoOp EXCEPT !.op = "clear"])
  /\ ins' = [ins EXCEPT ![f] = {}]

Reset(f, m) ==
  /\ flt[f].alive
  /\ CanAllocate
  /\ Becomes(reset(Configs[cfg], Machine, f, m),
             [NoOp EXCEPT !.op = "reset", !.m = m])
  /\ ins' = [ins EXCEPT ![f] = {}]

Combine(f, x, op) ==
  /\ flt[f].alive /\ flt[x].alive
  /\ IF combine_throws(Machine, f, x)
     THEN /\ Becomes(Machine, [NoOp EXCEPT !.op = op, !.thrown = TRUE])
          /\ UNCHANGED ins
     ELSE /\ Becomes(combine(Configs[cfg], Machine, f, x, op), [NoOp EXCEPT !.op = op])
          /\ ins' = [ins EXCEPT ![f] = IF op = "and" THEN @ \cap ins[x] ELSE @ \cup ins[x]]

\* reset, copy assignment and move assignment with an allocator that
\* succeeds (ok) or throws
ResetWith(f, m, ok) ==
  /\ flt[f].alive
  /\ ok => CanAllocate
  /\ LET r == reset_may_throw(Configs[cfg], Machine, f, m, ok)
     IN  /\ Becomes(r.M, [NoOp EXCEPT !.op = "reset", !.m = m, !.thrown = r.thrown])
         /\ ins' = IF r.thrown THEN ins ELSE [ins EXCEPT ![f] = {}]

CopyAssignWith(f, x, ok) ==
  /\ flt[f].alive /\ flt[x].alive
  /\ ok => CanAllocate
  /\ LET r == copy_assign_may_throw(Configs[cfg], Machine, f, x, ok)
     IN  /\ Becomes(r.M, [NoOp EXCEPT !.op = "copy_assign", !.thrown = r.thrown])
         /\ ins' = IF r.thrown THEN ins ELSE [ins EXCEPT ![f] = ins[x]]

MoveAssignWith(f, x, ok) ==
  /\ flt[f].alive /\ flt[x].alive
  /\ ok => CanAllocate
  /\ LET r == move_assign_may_throw(Configs[cfg], Machine, f, x, ok)
     IN  /\ Becomes(r.M, [NoOp EXCEPT !.op = "move_assign", !.thrown = r.thrown])
         /\ ins' = IF r.thrown \/ f = x THEN ins
                   ELSE [ins EXCEPT ![f] = ins[x], ![x] = {}]

\* fpr_for(n, m)
FprFor(n, m) ==
  /\ Becomes(Machine, [NoOp EXCEPT !.op = "fpr_for", !.n = n, !.m = m,
                                   !.ret = fpr_for(Configs[cfg], n, m)])
  /\ UNCHANGED ins

\* capacity_for(n, fpr)
CapacityFor(n, fpr, asserts, u) ==
  LET r == unadjusted_capacity_for(n, fpr, asserts, u)
  IN  /\ Becomes(Machine,
                 [NoOp EXCEPT !.op = "capacity_for", !.n = n, !.fpr = fpr,
                              !.asserted = r.asserted,
                              !.size = IF r.asserted THEN 0
                                       ELSE capacity_for(Configs[cfg], r.m)])
      /\ UNCHANGED ins

\* filter_core(n, fpr, al): the assertion is evaluated in the argument of the
\* delegated constructor
ConstructFpr(f, n, fpr, asserts, u, al) ==
  /\ ~flt[f].alive
  /\ CanAllocate
  /\ LET r == unadjusted_capacity_for(n, fpr, asserts, u)
     IN  IF r.asserted
         THEN Becomes(Machine, [NoOp EXCEPT !.op = "ctor_fpr", !.n = n, !.fpr = fpr,
                                            !.asserted = TRUE])
         ELSE Becomes(ctor(Configs[cfg], Machine, f, r.m, al),
                      [NoOp EXCEPT !.op = "ctor_fpr", !.n = n, !.fpr = fpr,
                                   !.m = r.m])
  /\ ins' = [ins EXCEPT ![f] = {}]

\* reset(n, fpr): reset(capacity_for(n, fpr))
ResetFpr(f, n, fpr, asserts, u) ==
  /\ flt[f].alive
  /\ CanAllocate
  /\ LET r == unadjusted_capacity_for(n, fpr, asserts, u)
     IN  IF r.asserted
         THEN /\ Becomes(Machine, [NoOp EXCEPT !.op = "reset_fpr", !.n = n,
                                               !.fpr = fpr, !.asserted = TRUE])
              /\ UNCHANGED ins
         ELSE /\ Becomes(reset(Configs[cfg], Machine, f,
                               capacity_for(Configs[cfg], r.m)),
                         [NoOp EXCEPT !.op = "reset_fpr", !.n = n, !.fpr = fpr,
                                      !.m = capacity_for(Configs[cfg], r.m)])
              /\ ins' = [ins EXCEPT ![f] = {}]

(***************************************************************************)
(* The const members called from threads.  may_contain takes a step for    *)
(* the part before its loop and one for each pass; capacity and operator== *)
(* take one step.  A thread keeps the value its last call returned.         *)
(***************************************************************************)
\* the thread's locals after the part before the loop and after a pass
reader_begun(f, h, b) ==
  [IdleReader EXCEPT !.pc = "loop", !.op = "may_contain", !.f = f, !.h = h,
                     !.hash = b.hash, !.p0 = b.p0, !.n = b.n]

reader_after(r0, r) ==
  IF r.done THEN [IdleReader EXCEPT !.op = "may_contain", !.ret = r.ret]
  ELSE [r0 EXCEPT !.hash = r.hash, !.p0 = r.p0, !.n = r.n]

ReadBegin(t, f, h) ==
  /\ rd[t].pc = "idle" /\ flt[f].alive
  /\ rd' = [rd EXCEPT ![t] =
              reader_begun(f, h, may_contain_begin(Configs[cfg], flt[f], h))]
  /\ UNCHANGED <<cfg, flt, heap, dummy, ins, last>>

ReadStep(t) ==
  /\ rd[t].pc = "loop"
  /\ rd' = [rd EXCEPT ![t] =
              reader_after(rd[t],
                           may_contain_step(Configs[cfg], flt[rd[t].f],
                                            MemOf(Machine, flt[rd[t].f].buckets.buf),
                                            rd[t]))]
  /\ UNCHANGED <<cfg, flt, heap, dummy, ins, last>>

ReadCapacity(t, f) ==
  /\ rd[t].pc = "idle" /\ flt[f].alive
  /\ rd' = [rd EXCEPT ![t] =
              [IdleReader EXCEPT !.op = "capacity",
                                 !.size = capacity(Configs[cfg], flt[f])]]
  /\ UNCHANGED <<cfg, flt, heap, dummy, ins, last>>

ReadEqual(t, f, g) ==
  /\ rd[t].pc = "idle" /\ flt[f].alive /\ flt[g].alive
  /\ rd' = [rd EXCEPT ![t] =
              [IdleReader EXCEPT !.op = "equal",
                                 !.ret = equal(Configs[cfg], Machine, f, g)]]
  /\ UNCHANGED <<cfg, flt, heap, dummy, ins, last>>

\* what save_filter writes for x: the capacity and the bytes of array()
saved(c, M, x) ==
  [c_bits |-> capacity(c, M.flt[x]),
   bytes |-> Load(M, array(c, M, x).ptr, array(c, M, x).size)]

\* load_filter: a filter of the saved capacity, its array() read from the file
load_filter(c, M, f, sv, al) ==
  LET M1 == ctor(c, M, f, sv.c_bits, al)
      s == array(c, M1, f)
      n == IF s.size < Len(sv.bytes) THEN s.size ELSE Len(sv.bytes)
  IN  Store(M1, s.ptr, Slice(sv.bytes, 0, n))

LoadFilter(f, x, al) ==
  /\ ~flt[f].alive /\ flt[x].alive
  /\ CanAllocate
  /\ Becomes(load_filter(Configs[cfg], Machine, f, saved(Configs[cfg], Machine, x), al),
             [NoOp EXCEPT !.op = "load", !.m = capacity(Configs[cfg], flt[x])])
  /\ ins' = [ins EXCEPT ![f] = ins[x]]

\* requested capacities: none, and MaxRange buckets' worth of bits
Requests(c) == {0, MaxRange * bucket_size(c) * CHAR_BIT}

\* every instantiation with an allocator all of whose instances are equal;
\* the operations on two filters take two distinct ones (a filter as its own
\* argument is in NextAlloc)
Next ==
  \/ \E f \in FilterIds, m \in Requests(Configs[cfg]) : Construct(f, m, 1)
  \/ \E f, x \in FilterIds : CopyConstruct(f, x, 1)
  \/ \E f, x \in FilterIds : MoveConstruct(f, x, 1)
  \/ \E f \in FilterIds : Destroy(f)
  \/ \E f, x \in FilterIds : f # x /\ CopyAssign(f, x)
  \/ \E f, x \in FilterIds : f # x /\ MoveAssign(f, x)
  \/ Swap(1, 2)
  \/ \E f \in FilterIds, hash \in Hashes : DoInsert(f, hash)
  \/ \E f \in FilterIds : Clear(f)
  \/ \E f \in FilterIds, m \in Requests(Configs[cfg]) : Reset(f, m)
  \/ \E f, x \in FilterIds, op \in {"and", "or"} : f # x /\ Combine(f, x, op)
  \/ \E f, x \in FilterIds : LoadFilter(f, x, 1)

Spec == Init /\ [][Next]_vars

(***************************************************************************)
(* The scalar instantiations with a stateful allocator: between them they  *)
(* have every propagation trait both ways.  Two allocator instances,       *)
(* filters of three sizes, one hash.                                       *)
(***************************************************************************)
ScalarConfigs == {i \in ConfigIds : Configs[i].sub # "fast_multiblock32"}

AllocRequests(c) == {0, 1, MaxRange * bucket_size(c) * CHAR_BIT}

InitAlloc == Init /\ cfg \in ScalarConfigs

NextAlloc ==
  \/ \E f \in FilterIds, m \in AllocRequests(Configs[cfg]), al \in AllocIds :
       Construct(f, m, al)
  \/ \E f, x \in FilterIds, al \in AllocIds : CopyConstruct(f, x, al)
  \/ \E f, x \in FilterIds, al \in AllocIds : MoveConstruct(f, x, al)
  \/ \E f \in FilterIds : Destroy(f)
  \/ \E f, x \in FilterIds : CopyAssign(f, x)
  \/ \E f, x \in FilterIds : MoveAssign(f, x)
  \/ \E f, x \in FilterIds : Swap(f, x)
  \/ \E f \in FilterIds : DoInsert(f, HashTable[1])
  \/ \E f \in FilterIds : Clear(f)

SpecAlloc == InitAlloc /\ [][NextAlloc]_vars

(***************************************************************************)
(* Sizing: one filter constructed and reset with requests on both sides of *)
(* every bucket boundary up to MaxRange + 1 buckets, and with the          *)
(* capacities those requests give.                                         *)
(***************************************************************************)
Boundaries(c) ==
  {0, 1} \cup
  {used_array_size(c, k) * CHAR_BIT + d : k \in 1..(MaxRange + 1), d \in {-1, 0, 1}}

\* the boundaries and the capacities they lead to
SizingRequests(c) ==
  Boundaries(c) \cup {capacity_for(c, u) : u \in Boundaries(c)}

NextSizing ==
  \/ \E m \in SizingRequests(Configs[cfg]) : Construct(1, m, 1)
  \/ \E u \in SizingRequests(Configs[cfg]) : ConstructFor(1, u, 1)
  \/ \E m \in SizingRequests(Configs[cfg]) : Reset(1, m)
  \/ Destroy(1)

SpecSizing == Init /\ [][NextSizing]_vars

(***************************************************************************)
(* A writer whose filter a peer reconstitutes: the filter is constructed   *)
(* in three sizes, filled, cleared, reset and destroyed.                   *)
(***************************************************************************)
NextPeers ==
  \/ \E m \in AllocRequests(Configs[cfg]) : Construct(1, m, 1)
  \/ Destroy(1)
  \/ \E hash \in Hashes : DoInsert(1, hash)
  \/ Clear(1)
  \/ \E m \in AllocRequests(Configs[cfg]) : Reset(1, m)

SpecPeers == Init /\ [][NextPeers]_vars

(***************************************************************************)
(* Two filters of three sizes combined with each other.                    *)
(***************************************************************************)
NextCombine ==
  \/ \E f \in FilterIds, m \in AllocRequests(Configs[cfg]) : Construct(f, m, 1)
  \/ \E f \in FilterIds : Destroy(f)
  \/ \E f \in FilterIds, hash \in Hashes : DoInsert(f, hash)
  \/ \E f \in FilterIds : Clear(f)
  \/ \E f, x \in FilterIds, op \in {"and", "or"} : f # x /\ Combine(f, x, op)

SpecCombine == Init /\ [][NextCombine]_vars

(***************************************************************************)
(* Two filters with two allocator instances, the allocator succeeding or   *)
(* throwing in reset and in the assignments.                               *)
(***************************************************************************)
NextThrow ==
  \/ \E f \in FilterIds, m \in AllocRequests(Configs[cfg]), al \in AllocIds :
       Construct(f, m, al)
  \/ \E f \in FilterIds : Destroy(f)
  \/ \E f \in FilterIds : DoInsert(f, HashTable[1])
  \/ \E f \in FilterIds, m \in AllocRequests(Configs[cfg]), ok \in BOOLEAN :
       ResetWith(f, m, ok)
  \/ \E f, x \in FilterIds, ok \in BOOLEAN : CopyAssignWith(f, x, ok)
  \/ \E f, x \in FilterIds, ok \in BOOLEAN : MoveAssignWith(f, x, ok)

SpecThrow == InitAlloc /\ [][NextThrow]_vars

(***************************************************************************)
(* The estimators and the operations taking (n, fpr), in builds with and   *)
(* without assertions.  A failed assertion ends the program.               *)
(***************************************************************************)
Counts == {0, 1, 2}

Fprs == {Double(0 - 1, 2), Double(1, 2), Double(1, 1), Double(3, 2)}

NextFpr ==
  /\ ~last.asserted
  /\ \/ \E n \in Counts, m \in AllocRequests(Configs[cfg]) : FprFor(n, m)
     \/ \E n \in Counts, fpr \in Fprs, asserts \in BOOLEAN,
           u \in AllocRequests(Configs[cfg]) : CapacityFor(n, fpr, asserts, u)
     \/ \E n \in Counts, fpr \in Fprs, asserts \in BOOLEAN,
           u \in AllocRequests(Configs[cfg]) : ConstructFpr(1, n, fpr, asserts, u, 1)
     \/ \E n \in Counts, fpr \in Fprs, asserts \in BOOLEAN,
           u \in AllocRequests(Configs[cfg]) : ResetFpr(1, n, fpr, asserts, u)
     \/ DoInsert(1, HashTable[1])
     \/ Destroy(1)

SpecFpr == Init /\ [][NextFpr]_vars

(***************************************************************************)
(* Two reader threads on two filters, in an instantiation with two rounds, *)
(* one with unaligned blocks and one with SIMD blocks; a writer runs only  *)
(* while no reader is inside a call.                                       *)
(***************************************************************************)
ReaderConfigs == {1, 2, 4}

InitReaders == Init /\ cfg \in ReaderConfigs

NoReader == \A t \in Readers : rd[t].pc = "idle"

NextReaders ==
  \/ NoReader /\ \E f \in FilterIds, m \in Requests(Configs[cfg]) : Construct(f, m, 1)
  \/ NoReader /\ \E hash \in Hashes : DoInsert(1, hash)
  \/ \E t \in Readers, h \in Hashes : ReadBegin(t, 1, h)
  \/ \E t \in Readers : ReadStep(t)
  \/ \E t \in Readers : ReadCapacity(t, 1)
  \/ \E t \in Readers : ReadEqual(t, 1, 2)

SpecReaders == InitReaders /\ [][NextReaders]_vars

(***************************************************************************)
(* Two filters with two allocator instances: every operation that obtains  *)
(* or gives back a buffer, reset included.                                 *)
(***************************************************************************)
NextOwn ==
  \/ NextAlloc
  \/ \E f \in FilterIds, m \in AllocRequests(Configs[cfg]) : Reset(f, m)

SpecOwn == InitAlloc /\ [][NextOwn]_vars

(***************************************************************************)
(* One filter of every size around the bucket boundaries, filled with the  *)
(* probe hashes and cleared.                                               *)
(***************************************************************************)
NextRounds ==
  \/ \E m \in SizingRequests(Configs[cfg]) : Construct(1, m, 1)
  \/ \E hash \in AllHashes : DoInsert(1, hash)
  \/ Clear(1)
  \/ Destroy(1)

SpecRounds == Init /\ [][NextRounds]_vars

(***************************************************************************)
(* Two filters of two sizes filled, cleared, reset and united.              *)
(***************************************************************************)
NextUnion ==
  \/ \E f \in FilterIds, m \in AllocRequests(Configs[cfg]) \ {0} : Construct(f, m, 1)
  \/ \E f \in FilterIds : Destroy(f)
  \/ \E f \in FilterIds, hash \in Hashes : DoInsert(f, hash)
  \/ \E f \in FilterIds : Clear(f)
  \/ \E f \in FilterIds, m \in {0, 1} : Reset(f, m)
  \/ \E f, x \in FilterIds : f # x /\ Combine(f, x, "or")

SpecUnion == Init /\ [][NextUnion]_vars

(***************************************************************************)
(* The subfilters on their own: a value x of a subfilter's value_type is   *)
(* stored, marked and checked.  Subfilters holds instantiations whose K'   *)
(* is below, at and above rehash_k, and below, at and above the 8 lanes of *)
(* fast_multiblock32, and the multiblock written with block_base::next     *)
(* (impl "next"); the state's x, and what was done to it, are in last.     *)
(***************************************************************************)
Instantiation(sub, impl, blockBytes, kp) ==
  [K |-> 1, sub |-> sub, impl |-> impl, blockBytes |-> blockBytes, kp |-> kp,
   BucketSize |-> 0, pocca |-> FALSE, pocma |-> FALSE, pocs |-> FALSE]

Subfilters ==
  << Instantiation("block", "scalar", 1, 1),
     Instantiation("block", "scalar", 2, 3),
     Instantiation("block", "scalar", 8, 10),
     Instantiation("multiblock", "scalar", 2, 2),
     Instantiation("multiblock", "scalar", 8, 9),
     Instantiation("multiblock", "scalar", 4, 12),
     Instantiation("multiblock", "next", 2, 2),
     Instantiation("multiblock", "next", 4, 12),
     Instantiation("fast_multiblock32", "avx2", 4, 2),
     Instantiation("fast_multiblock32", "avx2", 4, 8),
     Instantiation("fast_multiblock32", "avx2", 4, 9),
     Instantiation("fast_multiblock32", "neon", 4, 2),
     Instantiation("fast_multiblock32", "neon", 4, 8),
     Instantiation("fast_multiblock32", "neon", 4, 9) >>

Subfilter == Subfilters[cfg]

\* contents of a value_type: all zero, all one, every other bit
Contents(c) ==
  {Fill(block_size(c), 0), Fill(block_size(c), 255), Fill(block_size(c), 85)}

InitBits ==
  /\ cfg \in 1..Len(Subfilters)
  /\ flt = [f \in FilterIds |-> DeadFilter]
  /\ heap = Pool
  /\ dummy = [addr |-> DummyAddr, mem |-> DummyBytes(Subfilter)]
  /\ ins = [f \in FilterIds |-> {}]
  /\ last \in {[op |-> "value", x |-> v, x0 |-> v, hash |-> HashTable[1], ret |-> FALSE] :
                 v \in Contents(Subfilter)}
  /\ rd = [t \in Readers |-> IdleReader]

\* Subfilter::mark(x, hash)
BitsMark(hash) ==
  /\ last' = [op |-> "mark", x |-> mark(Subfilter, last.x, hash), x0 |-> last.x,
              hash |-> hash, ret |-> FALSE]
  /\ UNCHANGED <<cfg, flt, heap, dummy, ins, rd>>

\* Subfilter::check(x, hash)
BitsCheck(hash) ==
  /\ last' = [op |-> "check", x |-> last.x, x0 |-> last.x, hash |-> hash,
              ret |-> check(Subfilter, last.x, hash)]
  /\ UNCHANGED <<cfg, flt, heap, dummy, ins, rd>>

NextBits ==
  \/ \E hash \in AllHashes : BitsMark(hash)
  \/ \E hash \in AllHashes : BitsCheck(hash)

SpecBits == InitBits /\ [][NextBits]_vars

(***************************************************************************)
(* The wide multiplication on its own: umul128 and mulx64_mix applied to   *)
(* words at the edges of the 32-bit halves, in either build.               *)
(***************************************************************************)
EdgeWords ==
  {ToBytes(0, 8), ToBytes(1, 8), ToBytes(2, 8), ToBytes(3, 8),
   Fill(4, 255) \o Fill(4, 0), Fill(4, 0) \o Fill(4, 255),
   <<0, 0, 0, 0, 1, 0, 0, 0>>, <<255, 255, 255, 255, 1, 0, 0, 0>>,
   Fill(8, 255), Phi64}

Words == EdgeWords \cup {HashTable[1], mulx64_mix(HashTable[1])}

Builds == {"uint128", "portable"}

InitMul ==
  /\ Init
  /\ cfg = 1

Umul128(build, x, y) ==
  /\ last' = [op |-> "umul128", build |-> build, x |-> x, y |-> y,
              r |-> umul128(build, x, y)]
  /\ UNCHANGED <<cfg, flt, heap, dummy, ins, rd>>

MulxMix(build, x) ==
  /\ last' = [op |-> "mulx64_mix", build |-> build, x |-> x, y |-> Phi64,
              r |-> mulx64_mix_built(build, x)]
  /\ UNCHANGED <<cfg, flt, heap, dummy, ins, rd>>

NextMul ==
  \/ \E build \in Builds, x, y \in Words : Umul128(build, x, y)
  \/ \E build \in Builds, x \in Words : MulxMix(build, x)

SpecMul == InitMul /\ [][NextMul]_vars

(***************************************************************************)
(* What the properties speak of.                                           *)
(***************************************************************************)
\* the machine after the step
MachineNext ==
  [flt |-> flt', heap |-> heap', dummy |-> dummy', allocs |-> 0, frees |-> 0]

Cap(f) == capacity(Configs[cfg], flt[f])

Answer(f, h) == MayContain(Configs[cfg], Machine, f, h)

AnswerNext(f, h) == MayContain(Configs[cfg], MachineNext, f, h)

\* the used bytes of filter f's array
UsedBytes(M, f) ==
  Load(M, M.flt[f].buckets, used_array_size(Configs[cfg], range(M.flt[f])))

(***************************************************************************)
(* C1: no false negatives.  In every reachable state every live filter     *)
(* answers true for every hash inserted into it since it was last cleared  *)
(* or reset.                                                               *)
(***************************************************************************)
C1_NoFalseNegatives ==
  \A f \in FilterIds : flt[f].alive => \A h \in ins[f] : Answer(f, h)

\* an insert has just put a hash into an allocated filter that still
\* answers false for another hash
C1_Witness ==
  /\ last.op = "insert"
  /\ \E f \in FilterIds :
       /\ flt[f].alive /\ Cap(f) > 0 /\ ins[f] # {}
       /\ \E h \in AllHashes \ ins[f] : ~Answer(f, h)

(***************************************************************************)
(* C2: a filter of capacity 0, however it got there, answers true for      *)
(* every hash.                                                             *)
(***************************************************************************)
C2_EmptyAnswersTrue ==
  \A f \in FilterIds :
    flt[f].alive /\ Cap(f) = 0 => \A h \in AllHashes : Answer(f, h)

\* a filter has just been moved from, and the filter that took its array
\* answers false for some hash while the moved-from one answers true
C2_Witness ==
  /\ last.op \in {"move_ctor", "move_assign"}
  /\ \E f, g \in FilterIds :
       /\ flt[f].alive /\ flt[g].alive
       /\ Cap(f) = 0 /\ Cap(g) > 0
       /\ \E h \in AllHashes : ~Answer(g, h) /\ Answer(f, h)

(***************************************************************************)
(* C3: insert on a filter of capacity 0 changes no filter and no memory,   *)
(* allocates nothing, and stops after the prefetch and the null test of    *)
(* its first round; the static dummy array stays all ones whatever is      *)
(* done; and every insert makes the null test exactly once, after the      *)
(* first prefetch and before the first write.                              *)
(***************************************************************************)
C3_InsertOnEmptyStep ==
  \A f \in FilterIds, h \in Hashes :
    (last'.op = "insert" /\ Cap(f) = 0 /\ DoInsert(f, h)) =>
      /\ flt' = flt /\ heap' = heap /\ dummy' = dummy
      /\ last'.allocs = 0
      /\ last'.trace = <<"prefetch", "nullcheck">>
      /\ capacity(Configs[cfg], flt'[f]) = 0

C3_TraceShape ==
  last.op = "insert" =>
    /\ Len(last.trace) >= 2
    /\ last.trace[1] = "prefetch"
    /\ last.trace[2] = "nullcheck"
    /\ Cardinality({i \in 1..Len(last.trace) : last.trace[i] = "nullcheck"}) = 1

C3_InsertOnEmpty ==
  /\ [][C3_InsertOnEmptyStep]_vars
  /\ [](dummy.mem = Fill(Len(dummy.mem), 255))
  /\ []C3_TraceShape

\* an insert into a moved-from or empty filter of an instantiation with
\* K > 1 has just stopped after its first round
C3_Witness ==
  /\ last.op = "insert"
  /\ last.trace = <<"prefetch", "nullcheck">>
  /\ Configs[cfg].K > 1
  /\ \E f \in FilterIds : flt[f].alive /\ Cap(f) = 0 /\ ins[f] # {}

(***************************************************************************)
(* C4: a filter just constructed with the capacity m has capacity 0 if m   *)
(* is 0 and a capacity of at least m otherwise, in every instantiation,    *)
(* those with a stride below the used block size included.                 *)
(***************************************************************************)
C4_CapacityAtLeastRequested ==
  last.op = "ctor" =>
    /\ flt[1].alive
    /\ last.m = 0 => Cap(1) = 0
    /\ last.m > 0 => Cap(1) >= last.m

\* a filter has just been constructed with a request above the tail bits of
\* an instantiation whose stride is below the used block size, and the
\* request was not a capacity
C4_Witness ==
  /\ last.op = "ctor"
  /\ bucket_size(Configs[cfg]) < used_block_size(Configs[cfg])
  /\ last.m > (used_block_size(Configs[cfg]) - bucket_size(Configs[cfg])) * CHAR_BIT
  /\ Cap(1) > last.m

(***************************************************************************)
(* C5: in every reachable state the capacity of a live filter is a         *)
(* multiple of 8, is (range*bucket_size + used_block_size - bucket_size)*8 *)
(* when its range is positive, and is 0 exactly when the filter holds no   *)
(* allocated array: data is null and buckets points into the static dummy  *)
(* array.                                                                  *)
(***************************************************************************)
C5_CapacityShape ==
  \A f \in FilterIds :
    flt[f].alive =>
      /\ Cap(f) % 8 = 0
      /\ range(flt[f]) > 0 =>
            Cap(f) = (range(flt[f]) * bucket_size(Configs[cfg])
                       + (used_block_size(Configs[cfg]) - bucket_size(Configs[cfg]))) * 8
      /\ Cap(f) = 0 <=> flt[f].data = NULL
      /\ flt[f].data = NULL <=> flt[f].buckets.buf = NULL
      /\ flt[f].data = NULL =>
            flt[f].buckets.off = buckets_for(Configs[cfg], dummy.addr)
      /\ flt[f].data # NULL =>
            heap[flt[f].data].live /\ flt[f].buckets.buf = flt[f].data

\* a filter has just been moved from: its hash strategy keeps a range, its
\* capacity is 0, and the other filter holds an array of an instantiation
\* whose stride is below the used block size
C5_Witness ==
  /\ last.op \in {"move_ctor", "move_assign"}
  /\ bucket_size(Configs[cfg]) < used_block_size(Configs[cfg])
  /\ \E f, g \in FilterIds :
       /\ flt[f].alive /\ flt[g].alive
       /\ flt[f].data = NULL /\ flt[f].rng # 0 /\ Cap(f) = 0
       /\ Cap(g) > 0

(***************************************************************************)
(* C6: capacity is a fixed point of construction.  Every capacity a filter *)
(* has is a value of capacity_for; a filter constructed with or reset to   *)
(* such a value has exactly that capacity; and a filter constructed with   *)
(* (n, fpr) has the capacity capacity_for(n, fpr), u being what            *)
(* unadjusted_capacity_for(n, fpr) returns for them.                       *)
(***************************************************************************)
CapacityValues ==
  {capacity_for(Configs[cfg], u) : u \in SizingRequests(Configs[cfg])}

C6_CapacityFixedPoint ==
  /\ flt[1].alive => Cap(1) \in CapacityValues
  /\ (last.op \in {"ctor", "reset"} /\ last.m \in CapacityValues) => Cap(1) = last.m
  /\ last.op = "ctor_fpr" => Cap(1) = capacity_for(Configs[cfg], last.m)

\* a filter of an instantiation whose stride is below the used block size
\* has just been reset to a capacity other than 0
C6_Witness ==
  /\ last.op = "reset"
  /\ bucket_size(Configs[cfg]) < used_block_size(Configs[cfg])
  /\ last.m > 0 /\ last.m \in CapacityValues
  /\ Cap(1) = last.m

(***************************************************************************)
(* C7: round trip through the bytes of array().  A filter made by          *)
(* constructing one of the capacity of x and copying the capacity()/8      *)
(* bytes of x.array() into its array() equals x and answers may_contain as *)
(* x does for every hash, whatever the bytes its allocation holds outside  *)
(* the used ones.                                                          *)
(***************************************************************************)
C7_RoundTripStep ==
  \A f, x \in FilterIds :
    (last'.op = "load" /\ LoadFilter(f, x, 1)) =>
      /\ equal(Configs[cfg], MachineNext, f, x)
      /\ equal(Configs[cfg], MachineNext, x, f)
      /\ capacity(Configs[cfg], flt'[f]) = Cap(x)
      /\ \A h \in AllHashes : AnswerNext(f, h) = AnswerNext(x, h)

C7_RoundTrip == [][C7_RoundTripStep]_vars

\* a filter that holds hashes and answers false for another has just been
\* loaded into an allocation whose bytes differ from those of the filter
\* saved, the two filters being equal
C7_Witness ==
  /\ last.op = "load"
  /\ \E f, x \in FilterIds :
       /\ f # x /\ flt[f].alive /\ flt[x].alive
       /\ Cap(x) > 0 /\ ins[x] # {}
       /\ \E h \in AllHashes : ~Answer(x, h)
       /\ equal(Configs[cfg], Machine, f, x)
       /\ heap[flt[f].data].mem # heap[flt[x].data].mem

(***************************************************************************)
(* C8: a filter reconstituted by a peer from the capacity and the bytes of *)
(* array() holds the same bytes and answers may_contain as the writer's    *)
(* filter does, and takes the same bytes from an insert, when the peer has *)
(* the same K, Subfilter and BucketStride and its build selects an         *)
(* implementation of fast_multiblock32 that sets and tests the same bits:  *)
(* the same implementation, or AVX2 on one side and NEON on the other.     *)
(***************************************************************************)
\* a peer process: no filter yet, one region of its memory in use
PeerMachine(p) ==
  [flt |-> [f \in FilterIds |-> DeadFilter],
   heap |-> [Pool EXCEPT ![1].live = TRUE],
   dummy |-> [addr |-> DummyAddr, mem |-> DummyBytes(Configs[p])],
   allocs |-> 0, frees |-> 0]

\* the peer with selection p after load_filter of what filter f saved
Reconstituted(p, f) ==
  load_filter(Configs[p], PeerMachine(p), 1, saved(Configs[cfg], Machine, f), 1)

\* the bytes of array() of the peer's filter
PeerBytes(M, p) ==
  Load(M, array(Configs[p], M, 1).ptr, array(Configs[p], M, 1).size)

\* the selections with the K, Subfilter and BucketStride of the writer's
Peers ==
  {p \in ConfigIds :
     /\ Configs[p].K = Configs[cfg].K
     /\ Configs[p].sub = Configs[cfg].sub
     /\ Configs[p].blockBytes = Configs[cfg].blockBytes
     /\ Configs[p].kp = Configs[cfg].kp
     /\ Configs[p].BucketSize = Configs[cfg].BucketSize}

SameBits(p) ==
  \/ Configs[p].impl = Configs[cfg].impl
  \/ {Configs[p].impl, Configs[cfg].impl} = {"avx2", "neon"}

Portable(p, f) ==
  LET R == Reconstituted(p, f)
  IN  /\ capacity(Configs[p], R.flt[1]) = Cap(f)
      /\ PeerBytes(R, p) = saved(Configs[cfg], Machine, f).bytes
      /\ \A h \in AllHashes : MayContain(Configs[p], R, 1, h) = Answer(f, h)
      /\ \A h \in Hashes :
           PeerBytes(Insert(Configs[p], R, 1, h).M, p)
             = saved(Configs[cfg], Insert(Configs[cfg], Machine, f, h).M, f).bytes

C8_PortableSameBits ==
  \A f \in FilterIds : flt[f].alive =>
    \A p \in Peers : SameBits(p) => Portable(p, f)

\* the claim as made: every implementation of the selection
C8_PortableAllImplementations ==
  \A f \in FilterIds : flt[f].alive =>
    \A p \in Peers : Portable(p, f)

\* an AVX2 writer has just inserted into a filter that answers false for
\* some hash, and a NEON peer reconstitutes it
C8_Witness ==
  /\ last.op = "insert"
  /\ Configs[cfg].impl = "avx2"
  /\ \E f \in FilterIds :
       /\ flt[f].alive /\ Cap(f) > 0 /\ ins[f] # {}
       /\ \E h \in AllHashes : ~Answer(f, h)
       /\ \E p \in Peers : Configs[p].impl = "neon" /\ Portable(p, f)

(***************************************************************************)
(* C9: move construction and move assignment from a filter x other than    *)
(* the target.  Afterwards x has capacity 0, refers to the static dummy    *)
(* array and can be looked up, inserted into, reset, assigned to and       *)
(* destroyed; the target has the capacity and the used bytes x had and     *)
(* answers may_contain as x did.  When the target's allocator (x's, on a   *)
(* move assignment that propagates it) equals x's, x's buffer itself is    *)
(* transferred and nothing is allocated; otherwise the used bytes are      *)
(* copied and x's buffer is deallocated, and a buffer is allocated, with   *)
(* the target's allocator, only if x holds an array and, on assignment,    *)
(* the target's range differs from x's: a target of x's range keeps its    *)
(* buffer.                                                                 *)
(***************************************************************************)
Sentinel ==
  [buf |-> NULL, off |-> buckets_for(Configs[cfg], dummy.addr)]

MovedPost(f, x) ==
  /\ flt'[x].alive /\ flt'[f].alive
  /\ capacity(Configs[cfg], flt'[x]) = 0
  /\ flt'[x].data = NULL /\ flt'[x].buckets = Sentinel
  /\ \A h \in Hashes : AnswerNext(x, h)
  /\ \A h \in Hashes : Insert(Configs[cfg], MachineNext, x, h).M = MachineNext
  /\ \A m \in AllocRequests(Configs[cfg]) :
       capacity(Configs[cfg], reset(Configs[cfg], MachineNext, x, m).flt[x]) >= m
  /\ equal(Configs[cfg], copy_assign(Configs[cfg], MachineNext, x, f), x, f)
  /\ dtor(Configs[cfg], MachineNext, x).frees = 0
  /\ capacity(Configs[cfg], flt'[f]) = Cap(x)
  /\ UsedBytes(MachineNext, f) = UsedBytes(Machine, x)
  /\ \A h \in Hashes : AnswerNext(f, h) = Answer(x, h)

Transferred(f, x) ==
  /\ last'.allocs = 0
  /\ flt'[f].data = flt[x].data /\ flt'[f].buckets = flt[x].buckets

\* the bytes were copied and x's buffer deallocated
CopiedOver(f, x) ==
  /\ flt[x].data # NULL => ~heap'[flt[x].data].live
  /\ flt[x].data # NULL => flt'[f].data # flt[x].data

NewBuffer(f, x) ==
  /\ last'.allocs = 1
  /\ flt'[f].data # NULL /\ flt'[f].data # flt[f].data
  /\ heap'[flt'[f].data].live /\ heap'[flt'[f].data].al = flt'[f].al

MoveRule(f, x, same, fresh) ==
  /\ same => Transferred(f, x)
  /\ ~same => CopiedOver(f, x)
  /\ ~same /\ fresh => NewBuffer(f, x)
  /\ ~same /\ ~fresh => last'.allocs = 0
  /\ ~same /\ ~fresh /\ range(flt[x]) # 0 => flt'[f].data = flt[f].data

\* the rule as claimed: a new buffer whenever the allocators differ
MoveRuleAlwaysNew(f, x, same) ==
  /\ same => Transferred(f, x)
  /\ ~same => CopiedOver(f, x) /\ NewBuffer(f, x)

C9_MoveStep ==
  \A f, x \in FilterIds :
    /\ \A al \in AllocIds :
         (last'.op = "move_ctor" /\ MoveConstruct(f, x, al)) =>
           /\ MovedPost(f, x)
           /\ flt'[f].al = al
           /\ MoveRule(f, x, al = flt[x].al, range(flt[x]) # 0)
    /\ (last'.op = "move_assign" /\ f # x /\ MoveAssign(f, x)) =>
         /\ MovedPost(f, x)
         /\ flt'[f].al = IF Configs[cfg].pocma THEN flt[x].al ELSE flt[f].al
         /\ MoveRule(f, x, Configs[cfg].pocma \/ flt[f].al = flt[x].al,
                     range(flt[x]) # 0 /\ range(flt[f]) # range(flt[x]))

C9_MoveAlwaysNewStep ==
  \A f, x \in FilterIds :
    /\ \A al \in AllocIds :
         (last'.op = "move_ctor" /\ MoveConstruct(f, x, al)) =>
           /\ MovedPost(f, x)
           /\ MoveRuleAlwaysNew(f, x, al = flt[x].al)
    /\ (last'.op = "move_assign" /\ f # x /\ MoveAssign(f, x)) =>
         /\ MovedPost(f, x)
         /\ MoveRuleAlwaysNew(f, x, Configs[cfg].pocma \/ flt[f].al = flt[x].al)

CopiedPost(f, x) ==
  /\ flt'[f].alive
  /\ equal(Configs[cfg], MachineNext, f, x)
  /\ capacity(Configs[cfg], flt'[f]) = capacity(Configs[cfg], flt'[x])
  /\ UsedBytes(MachineNext, f) = UsedBytes(MachineNext, x)
  /\ \A h \in Hashes : AnswerNext(f, h) = AnswerNext(x, h)
  /\ f # x => flt'[x] = flt[x]
  /\ capacity(Configs[cfg], flt'[x]) = Cap(x)
  /\ UsedBytes(MachineNext, x) = UsedBytes(Machine, x)
  /\ f # x /\ Cap(x) > 0 => flt'[f].data # flt'[x].data

C10_CopyStep ==
  \A f, x \in FilterIds :
    /\ \A al \in AllocIds :
         (last'.op = "copy_ctor" /\ CopyConstruct(f, x, al)) =>
           CopiedPost(f, x) /\ flt'[f].al = al
    /\ (last'.op = "copy_assign" /\ CopyAssign(f, x)) =>
         /\ CopiedPost(f, x)
         /\ (/\ range(flt[f]) = range(flt[x])
             /\ ~(Configs[cfg].pocca /\ flt[f].al # flt[x].al)) =>
               /\ last'.allocs = 0 /\ last'.frees = 0
               /\ flt'[f].data = flt[f].data /\ flt'[f].buckets = flt[f].buckets

\* an insert changes no other filter and no byte of another filter's array
C10_InsertStep ==
  \A f, g \in FilterIds :
    (last'.op = "insert" /\ f # g /\ flt[g].alive /\ DoInsert(f, HashTable[1])) =>
      /\ flt'[g] = flt[g]
      /\ UsedBytes(MachineNext, g) = UsedBytes(Machine, g)

C10_CopySemantics == [][C10_CopyStep /\ C10_InsertStep]_vars

\* a copy assignment between filters of the same range whose allocators
\* differ and are not propagated has just copied the bytes of a filter
\* holding a hash into the target's own buffer
C10_Witness ==
  /\ last.op = "copy_assign" /\ last.allocs = 0
  /\ ~Configs[cfg].pocca
  /\ \E f, x \in FilterIds :
       /\ f # x /\ flt[f].alive /\ flt[x].alive /\ flt[f].al # flt[x].al
       /\ Cap(x) > 0 /\ ins[x] # {} /\ ins[f] = ins[x]
       /\ equal(Configs[cfg], Machine, f, x)
       /\ flt[f].data # flt[x].data
       /\ \E h \in Hashes : ~Answer(x, h)

(***************************************************************************)
(* C11: operator== is true exactly when the two filters have the same      *)
(* capacity and the same used bytes; two filters of capacity 0 are equal,  *)
(* and a filter of capacity 0 equals no filter with an array.              *)
(***************************************************************************)
C11_EqualityIsCapacityAndBytes ==
  \A f, g \in FilterIds :
    flt[f].alive /\ flt[g].alive =>
      /\ equal(Configs[cfg], Machine, f, g)
           <=> (Cap(f) = Cap(g) /\ UsedBytes(Machine, f) = UsedBytes(Machine, g))
      /\ Cap(f) = 0 /\ Cap(g) = 0 => equal(Configs[cfg], Machine, f, g)
      /\ Cap(f) = 0 /\ Cap(g) > 0 =>
           ~equal(Configs[cfg], Machine, f, g) /\ ~equal(Configs[cfg], Machine, g, f)

\* a filter has just been moved from and is compared with the filter that
\* took its array, and elsewhere two filters of the same capacity differ in
\* a byte
C11_Witness ==
  \/ /\ last.op \in {"move_ctor", "move_assign"}
     /\ flt[1].alive /\ flt[2].alive
     /\ Cap(1) = 0 /\ Cap(2) > 0 /\ ins[2] # {}
     /\ ~equal(Configs[cfg], Machine, 1, 2)
  \/ /\ last.op = "insert"
     /\ flt[1].alive /\ flt[2].alive
     /\ Cap(1) = Cap(2) /\ Cap(1) > 0
     /\ UsedBytes(Machine, 1) # UsedBytes(Machine, 2)
     /\ ~equal(Configs[cfg], Machine, 1, 2)

(***************************************************************************)
(* C12: a &= b and a |= b between filters of different capacities (one of  *)
(* them possibly of capacity 0) throw std::invalid_argument and change     *)
(* nothing: the members and the bytes of a and of b, and every allocation, *)
(* are as before; between filters of the same capacity nothing is thrown.  *)
(***************************************************************************)
C12_IncompatibleStep ==
  \A f, x \in FilterIds :
    (last'.op \in {"and", "or"} /\ Combine(f, x, last'.op)) =>
      /\ last'.thrown <=> (Cap(f) # Cap(x))
      /\ last'.thrown =>
           /\ flt' = flt /\ heap' = heap /\ dummy' = dummy
           /\ last'.allocs = 0 /\ last'.frees = 0

C12_IncompatibleCombineThrows == [][C12_IncompatibleStep]_vars

\* a combine of two filters with arrays of different sizes has thrown, the
\* left one holding elements
C12_Witness ==
  /\ last.op \in {"and", "or"} /\ last.thrown
  /\ \E f, x \in FilterIds :
       /\ flt[f].alive /\ flt[x].alive
       /\ 0 < Cap(f) /\ Cap(f) < Cap(x)
       /\ ins[f] # {} /\ ins[x] # {}

(***************************************************************************)
(* C13: between filters of the same capacity, |= leaves in every used byte *)
(* the OR of the two operands' bytes and answers true wherever either      *)
(* operand did; &= leaves the AND, answers true only where both operands   *)
(* did, and still answers true for every hash inserted into both.  The     *)
(* right operand and the capacity are unchanged.                           *)
(***************************************************************************)
C13_CombineStep ==
  \A f, x \in FilterIds :
    (last'.op \in {"and", "or"} /\ ~last'.thrown /\ Combine(f, x, last'.op)) =>
      /\ flt' = flt
      /\ MemOf(MachineNext, flt[x].buckets.buf) = MemOf(Machine, flt[x].buckets.buf)
      /\ UsedBytes(MachineNext, x) = UsedBytes(Machine, x)
      /\ capacity(Configs[cfg], flt'[f]) = Cap(f)
      /\ last'.op = "or" =>
           /\ UsedBytes(MachineNext, f)
                = OrBytes(UsedBytes(Machine, f), UsedBytes(Machine, x))
           /\ \A h \in Hashes :
                Answer(f, h) \/ Answer(x, h) => AnswerNext(f, h)
      /\ last'.op = "and" =>
           /\ UsedBytes(MachineNext, f)
                = AndBytes(UsedBytes(Machine, f), UsedBytes(Machine, x))
           /\ \A h \in Hashes :
                /\ AnswerNext(f, h) => Answer(f, h) /\ Answer(x, h)
                /\ h \in ins[f] \cap ins[x] => AnswerNext(f, h)

C13_CombineIsBitwise == [][C13_CombineStep]_vars

\* an OR has left in a filter the elements of both operands, the right one
\* holding fewer, or an AND has kept the element both operands held and
\* dropped from the answers one only the right operand holds
C13_Witness ==
  \E f, x \in FilterIds :
    /\ flt[f].alive /\ flt[x].alive /\ Cap(f) > 0 /\ ~last.thrown
    /\ UsedBytes(Machine, f) # UsedBytes(Machine, x)
    /\ \/ /\ last.op = "or"
          /\ ins[x] # {} /\ ins[x] # ins[f]
          /\ \E h \in ins[f] : ~Answer(x, h)
       \/ /\ last.op = "and"
          /\ ins[f] # {}
          /\ \E h \in ins[x] : ~Answer(f, h)

(***************************************************************************)
(* C14: clear zeroes every used byte and changes nothing else: capacity,   *)
(* range, rng and the buffer stay, nothing is allocated or freed, a second *)
(* clear changes nothing, and a cleared filter with an array answers false *)
(* for every hash.                                                         *)
(***************************************************************************)
C14_ClearStep ==
  \A f \in FilterIds :
    (last'.op = "clear" /\ Clear(f)) =>
      /\ flt' = flt
      /\ last'.allocs = 0 /\ last'.frees = 0
      /\ [b \in BufIds |-> heap'[b].live] = [b \in BufIds |-> heap[b].live]
      /\ dummy' = dummy
      /\ UsedBytes(MachineNext, f)
           = Fill(used_array_size(Configs[cfg], range(flt[f])), 0)
      /\ capacity(Configs[cfg], flt'[f]) = Cap(f)
      /\ \A g \in FilterIds \ {f} :
           flt[g].alive => UsedBytes(MachineNext, g) = UsedBytes(Machine, g)
      /\ LET M2 == clear(Configs[cfg], MachineNext, f)
         IN  M2.flt = flt' /\ M2.heap = heap' /\ M2.dummy = dummy'
      /\ Cap(f) > 0 => \A h \in AllHashes : ~AnswerNext(f, h)

C14_ClearZeroes == [][C14_ClearStep]_vars

\* a clear has just left a filter with an array answering false for every
\* hash while the other filter still holds its elements
C14_Witness ==
  /\ last.op = "clear"
  /\ \E f \in FilterIds :
       /\ flt[f].alive /\ Cap(f) > 0 /\ ins[f] = {}
       /\ \A h \in AllHashes : ~Answer(f, h)
       /\ \E g \in FilterIds : flt[g].alive /\ Cap(g) > 0 /\ ins[g] # {}

(***************************************************************************)
(* C15: reset(m) replaces the array only when the range computed from m    *)
(* differs from the current one, and is clear otherwise (same buffer,      *)
(* nothing allocated or freed); afterwards every used byte is zero, the    *)
(* capacity is 0 if m = 0 and at least m otherwise; reset(0) allocates     *)
(* nothing, and on a filter of capacity 0 it is clear.                     *)
(***************************************************************************)
C15_ResetStep ==
  \A f \in FilterIds :
    (last'.op = "reset" /\ Reset(f, last'.m)) =>
      LET c == Configs[cfg]
          m == last'.m
          rng == IF m # 0 THEN mcg_and_fastrange(requested_range(c, m)) ELSE 0
          cleared == clear(c, Machine, f)
      IN  /\ rng = range(flt[f]) =>
               /\ flt' = cleared.flt /\ heap' = cleared.heap /\ dummy' = cleared.dummy
               /\ flt' = flt
               /\ last'.allocs = 0 /\ last'.frees = 0
          /\ rng # range(flt[f]) =>
               /\ last'.allocs = (IF rng = 0 THEN 0 ELSE 1)
               /\ last'.frees = (IF flt[f].data = NULL THEN 0 ELSE 1)
               /\ flt'[f].data # flt[f].data
               /\ flt[f].data # NULL => ~heap'[flt[f].data].live
          /\ UsedBytes(MachineNext, f)
               = Fill(used_array_size(c, range(flt'[f])), 0)
          /\ capacity(c, flt'[f]) >= m
          /\ (capacity(c, flt'[f]) = 0) <=> (m = 0)
          /\ m = 0 => last'.allocs = 0
          /\ dummy' = dummy

C15_ResetReplacesOnRangeChange == [][C15_ResetStep]_vars

\* a reset to the range the filter already has has kept its buffer and
\* allocated nothing
C15_Witness ==
  /\ last.op = "reset" /\ last.m > 0 /\ flt[1].alive
  /\ last.allocs = 0 /\ last.frees = 0 /\ Cap(1) >= last.m

(***************************************************************************)
(* C16: when the allocator fails during reset(m), copy assignment or move  *)
(* assignment between unequal allocators that do not propagate, the        *)
(* exception leaves the target's capacity, rng, bytes and buffer, the      *)
(* source and every allocation exactly as before the call; and the         *)
(* exception is raised whenever such a call needs a new buffer.            *)
(***************************************************************************)
C16_NeedsBuffer(f, x) ==
  LET c == Configs[cfg]
  IN  CASE last'.op = "reset" ->
             last'.m # 0
             /\ mcg_and_fastrange(requested_range(c, last'.m)) # range(flt[f])
        [] last'.op = "copy_assign" ->
             /\ f # x /\ range(flt[x]) # 0
             /\ \/ range(flt[f]) # range(flt[x])
                \/ c.pocca /\ flt[f].al # flt[x].al
        [] last'.op = "move_assign" ->
             /\ f # x /\ range(flt[x]) # 0
             /\ ~c.pocma /\ flt[f].al # flt[x].al
             /\ range(flt[f]) # range(flt[x])

C16_FailedStep ==
  \A f, x \in FilterIds :
    (/\ last'.op \in {"reset", "copy_assign", "move_assign"}
     /\ \/ last'.op = "reset" /\ f = x /\ ResetWith(f, last'.m, FALSE)
        \/ last'.op = "copy_assign" /\ CopyAssignWith(f, x, FALSE)
        \/ last'.op = "move_assign" /\ MoveAssignWith(f, x, FALSE)) =>
      /\ last'.thrown <=> C16_NeedsBuffer(f, x)
      /\ last'.thrown =>
           /\ flt' = flt /\ heap' = heap /\ dummy' = dummy
           /\ last'.allocs = 0 /\ last'.frees = 0
           /\ capacity(Configs[cfg], flt'[f]) = Cap(f)
           /\ UsedBytes(MachineNext, f) = UsedBytes(Machine, f)
           /\ UsedBytes(MachineNext, x) = UsedBytes(Machine, x)

C16_StrongGuarantee == [][C16_FailedStep]_vars

\* a move assignment between unequal allocators that do not propagate has
\* thrown, target and source holding elements in arrays of different sizes
C16_Witness ==
  /\ last.op = "move_assign" /\ last.thrown
  /\ ~Configs[cfg].pocma
  /\ flt[1].alive /\ flt[2].alive /\ flt[1].al # flt[2].al
  /\ Cap(1) > 0 /\ Cap(2) > 0 /\ Cap(1) # Cap(2)
  /\ ins[1] # {} /\ ins[2] # {}

(***************************************************************************)
(* C17: fpr_for(n, 0) is 1.0 for every element count n, n = 0 included.    *)
(***************************************************************************)
C17_FprForZeroCapacity ==
  last.op = "fpr_for" /\ last.m = 0 => last.ret = Double(1, 1)

(***************************************************************************)
(* C18: capacity_for(n, fpr), construction with (n, fpr) and reset(n, fpr) *)
(* with fpr < 0 or fpr > 1 report an error at once instead of computing a  *)
(* capacity; no filter is created or modified and nothing is allocated.    *)
(* This is the statement as claimed, for every build.                      *)
(***************************************************************************)
C18_FprStep(asserts, u) ==
  \/ last'.op = "capacity_for" /\ CapacityFor(last'.n, last'.fpr, asserts, u)
  \/ last'.op = "ctor_fpr" /\ ConstructFpr(1, last'.n, last'.fpr, asserts, u, 1)
  \/ last'.op = "reset_fpr" /\ ResetFpr(1, last'.n, last'.fpr, asserts, u)

C18_Stopped ==
  /\ last'.asserted
  /\ flt' = flt /\ heap' = heap /\ dummy' = dummy
  /\ last'.allocs = 0 /\ last'.frees = 0 /\ last'.size = 0

C18_FailsFastStep ==
  \A asserts \in BOOLEAN, u \in AllocRequests(Configs[cfg]) :
    (/\ last'.op \in {"capacity_for", "ctor_fpr", "reset_fpr"}
     /\ ~fpr_in_range(last'.fpr)
     /\ C18_FprStep(asserts, u)) => C18_Stopped

C18_InvalidFprFailsFast == [][C18_FailsFastStep]_vars

(***************************************************************************)
(* C18, amended: in a build where BOOST_ASSERT is active the three calls   *)
(* stop at the assertion at the entry of the solver, for every n, before a *)
(* capacity is computed, with no filter created or modified and nothing    *)
(* allocated; in a build where it expands to nothing no error is reported. *)
(***************************************************************************)
C18_AssertStep ==
  \A asserts \in BOOLEAN, u \in AllocRequests(Configs[cfg]) :
    (/\ last'.op \in {"capacity_for", "ctor_fpr", "reset_fpr"}
     /\ ~fpr_in_range(last'.fpr)
     /\ C18_FprStep(asserts, u)) =>
      /\ asserts => C18_Stopped
      /\ ~asserts => ~last'.asserted

C18_InvalidFprAsserts == [][C18_AssertStep]_vars

\* reset(n, fpr) with fpr > 1 has stopped at the assertion, the filter
\* holding an element in its array
C18_Witness ==
  /\ last.op = "reset_fpr" /\ last.asserted
  /\ last.fpr = Double(3, 2) /\ last.n = 0
  /\ flt[1].alive /\ Cap(1) > 0 /\ ins[1] # {}

(***************************************************************************)
(* C20: in every reachable state, for every hash and every round, the      *)
(* block at buckets + pos*bucket_size that may_contain reads and insert    *)
(* reads and writes lies inside the allocation of space_for(range) bytes,  *)
(* after the alignment adjustment of buckets and for the last bucket too;  *)
(* for a filter of capacity 0, whose rng is 3, it lies inside the static   *)
(* array of space_for(3) bytes, which keeps its all-ones bytes.            *)
(***************************************************************************)
\* the offsets next_element returns in the n rounds of insert or may_contain
RECURSIVE bucket_offsets(_, _, _, _)
bucket_offsets(c, fl, hash, n) ==
  IF n = 0 THEN <<>>
  ELSE LET e == next_element(c, fl, hash)
       IN  <<e.p>> \o bucket_offsets(c, fl, e.hash, n - 1)

C20_BucketAccessInBounds ==
  /\ dummy.mem = DummyBytes(Configs[cfg])
  /\ \A f \in FilterIds :
       flt[f].alive =>
         LET c == Configs[cfg]
             fl == flt[f]
             mem == MemOf(Machine, fl.buckets.buf)
         IN  /\ fl.data # NULL =>
                  /\ heap[fl.data].live /\ fl.buckets.buf = fl.data
                  /\ Len(mem) = space_for(c, fl.rng)
             /\ fl.data = NULL =>
                  /\ fl.rng = mcg_and_fastrange(0) /\ fl.rng = 3
                  /\ fl.buckets.buf = NULL
                  /\ Len(mem) = space_for(c, 3)
             /\ \A h \in AllHashes :
                  LET offs == bucket_offsets(c, fl, prepare_hash(h), c.K)
                  IN  \A i \in 1..Len(offs) :
                        /\ offs[i] >= fl.buckets.off /\ fl.buckets.off >= 0
                        /\ offs[i] + block_size(c) <= Len(mem)

\* an insert has written the last bucket of an array of several buckets,
\* the block reaching beyond the bucket into the tail of the allocation
C20_Witness ==
  /\ last.op = "insert" /\ Len(last.trace) > 2
  /\ \E f \in FilterIds :
       /\ flt[f].alive /\ range(flt[f]) > 1
       /\ block_size(Configs[cfg]) > bucket_size(Configs[cfg])
       /\ \E h \in ins[f] :
            LET offs == bucket_offsets(Configs[cfg], flt[f], prepare_hash(h),
                                       Configs[cfg].K)
            IN  \E i \in 1..Len(offs) :
                  offs[i] = flt[f].buckets.off
                              + (range(flt[f]) - 1) * bucket_size(Configs[cfg])

(***************************************************************************)
(* C19: a step of may_contain, capacity or operator== changes no member of *)
(* any filter and no byte of any array or of the static array; and with no *)
(* writer running during a call, whatever the interleaving of the readers' *)
(* steps, each call returns what it returns when run alone on the state.   *)
(***************************************************************************)
C19_ReaderStep ==
  rd' # rd =>
    /\ flt' = flt /\ heap' = heap /\ dummy' = dummy
    /\ \A t \in Readers :
         /\ rd[t].pc = "loop" /\ rd'[t].pc = "idle" =>
              rd'[t].ret = Answer(rd[t].f, rd[t].h)
         /\ \A f \in FilterIds :
              rd'[t].op = "capacity" /\ ReadCapacity(t, f) => rd'[t].size = Cap(f)
         /\ \A f, g \in FilterIds :
              rd'[t].op = "equal" /\ ReadEqual(t, f, g) =>
                rd'[t].ret = equal(Configs[cfg], Machine, f, g)

C21_BufferOwnership ==
  LET c == Configs[cfg]
      owners(b) == {f \in FilterIds : flt[f].alive /\ flt[f].data = b}
  IN  /\ \A b \in BufIds :
           /\ ~heap[b].bad
           /\ heap[b].live =>
                /\ Cardinality(owners(b)) = 1
                /\ \A f \in owners(b) :
                     /\ Len(heap[b].mem) = space_for(c, range(flt[f]))
                     /\ heap[b].al = flt[f].al
           /\ ~heap[b].live => owners(b) = {}
      /\ (\A f \in FilterIds : ~flt[f].alive) => \A b \in BufIds : ~heap[b].live
      /\ \A f \in FilterIds :
           flt[f].alive =>
             /\ copy_assign(c, Machine, f, f) = Machine
             /\ move_assign(c, Machine, f, f) = Machine

\* every filter has been destroyed after a move assignment between unequal
\* allocators had copied an array and given the source's buffer back
C21_Witness ==
  /\ last.op = "dtor"
  /\ \A f \in FilterIds : ~flt[f].alive
  /\ \A b \in BufIds : ~heap[b].live
  /\ last.frees = 1

(***************************************************************************)
(* C22: for every hash and the rng of every live filter, each of the K     *)
(* rounds of next_position, begun with the hash prepare_hash returns,      *)
(* gives pos = floor(hash * rng / 2^64) with 0 <= pos < rng and leaves     *)
(* hash * rng mod 2^64, which is odd.  The product is taken as the sum of  *)
(* rng copies of the hash.                                                 *)
(***************************************************************************)
\* n * x in 128 bits, by adding
RECURSIVE Times(_, _)
Times(n, x) ==
  IF n = 0 THEN Fill(16, 0)
  ELSE SumBytes(Times(n - 1, x), x \o Fill(8, 0), 1, 0)

RECURSIVE C22_Rounds(_, _, _)
C22_Rounds(hash, rng, n) ==
  \/ n = 0
  \/ LET np == next_position(hash, rng)
     IN  /\ np.hash \o ToBytes(np.pos, 8) = Times(rng, hash)
         /\ 0 <= np.pos /\ np.pos < rng
         /\ np.hash[1] % 2 = 1
         /\ C22_Rounds(np.hash, rng, n - 1)

C22_BucketSelector ==
  \A f \in FilterIds :
    flt[f].alive =>
      /\ flt[f].rng % 2 = 1
      /\ \A h \in AllHashes :
           C22_Rounds(prepare_hash(h), flt[f].rng, Configs[cfg].K)

\* a filter with more than one round and an array, for which an even hash
\* selects a bucket other than the first
C22_Witness ==
  /\ flt[1].alive /\ flt[1].data # NULL
  /\ Configs[cfg].K > 1
  /\ \E h \in AllHashes :
       /\ h[1] % 2 = 0
       /\ next_position(prepare_hash(h), flt[1].rng).pos > 0

(***************************************************************************)
(* C23: for every requested range m, mcg_and_fastrange(m) is the smallest  *)
(* integer >= m that is 3 or 5 modulo 8 (so odd, >= 3 and <= m + 5) and is *)
(* a fixed point; the rng of every live filter in every reachable state is *)
(* 3 or 5 modulo 8, and is 3 when the filter has no array.                 *)
(***************************************************************************)
C23_MultiplierInvariant ==
  /\ \A m \in 0..(8 * MaxRange + 7) :
       LET r == mcg_and_fastrange(m)
       IN  /\ r >= m /\ r <= m + 5 /\ r >= 3
           /\ r % 8 \in {3, 5}
           /\ \A j \in m..(r - 1) : j % 8 \notin {3, 5}
           /\ mcg_and_fastrange(r) = r
  /\ \A f \in FilterIds :
       flt[f].alive =>
         /\ flt[f].rng % 8 \in {3, 5}
         /\ Cap(f) = 0 => flt[f].rng = 3
         /\ flt[f].data = NULL => flt[f].rng = 3

\* a filter has just been moved from, and the filter that took its array has
\* an rng that is 5 modulo 8
C23_Witness ==
  /\ last.op \in {"move_ctor", "move_assign"}
  /\ \E f, x \in FilterIds :
       /\ flt[f].alive /\ flt[f].data = NULL /\ flt[f].rng = 3
       /\ flt[x].alive /\ flt[x].data # NULL /\ flt[x].rng % 8 = 5

(***************************************************************************)
(* C24: for every hash and every content of the array, may_contain as      *)
(* pipelined returns what the plain loop of K rounds returns; it calls get *)
(* round by round and stops with false at the first round whose get fails; *)
(* on a filter with an array the pairs (offset, hash) it calls get with    *)
(* are, in order, those insert calls set with; on a filter without array   *)
(* insert calls set for none and may_contain calls get for all K on the    *)
(* static array and returns true.                                          *)
(***************************************************************************)
C24_Gets(f, h) ==
  LET c == Configs[cfg]
      e == next_element(c, flt[f], prepare_hash(h))
  IN  may_contain_gets(c, flt[f], MemOf(Machine, flt[f].buckets.buf),
                       e.p, e.hash, c.K - 1, <<>>)

C24_Sets(f, h) == insert_sets(Configs[cfg], flt[f], prepare_hash(h), Configs[cfg].K)

C24_Get(f, pair) ==
  get(Configs[cfg], MemOf(Machine, flt[f].buckets.buf), pair[1], pair[2])

\* the gets are the first sets, one for one
C24_GetsAreSets(g, s) ==
  /\ Len(g) <= Len(s)
  /\ \A i \in 1..Len(g) : g[i] = s[i]

C24_Mirror(f, h, g, s) ==
  /\ Answer(f, h) = may_contain_plain(Configs[cfg], flt[f],
                                      MemOf(Machine, flt[f].buckets.buf), h)
  /\ Answer(f, h) = g.ret
  /\ Len(g.gets) \in 1..Configs[cfg].K
  /\ \A i \in 1..(Len(g.gets) - 1) : C24_Get(f, g.gets[i])
  /\ g.ret = C24_Get(f, g.gets[Len(g.gets)])
  /\ g.ret => Len(g.gets) = Configs[cfg].K
  /\ flt[f].data # NULL => C24_GetsAreSets(g.gets, s)
  /\ flt[f].data = NULL => s = <<>> /\ g.ret

C24_LookupMirrorsInsert ==
  \A f \in FilterIds, h \in AllHashes :
    flt[f].alive => C24_Mirror(f, h, C24_Gets(f, h), C24_Sets(f, h))

\* a filter of an instantiation with more than one round holds a hash, and
\* the lookup of another hash fails in a round after the first
C24_Witness ==
  /\ Configs[cfg].K > 1
  /\ flt[1].alive /\ flt[1].data # NULL /\ ins[1] # {}
  /\ \E h \in AllHashes :
       ~C24_Gets(1, h).ret /\ Len(C24_Gets(1, h).gets) > 1

\* the claim as made: on every live filter the pairs may_contain calls get
\* with are, in order, those insert calls set with
C24_LookupGetsAreInsertSets ==
  \A f \in FilterIds, h \in AllHashes :
    flt[f].alive => C24_GetsAreSets(C24_Gets(f, h).gets, C24_Sets(f, h))

(***************************************************************************)
(* C25: the used bytes of every filter with capacity > 0 are the bitwise   *)
(* OR of the bit patterns of the hashes inserted into it, directly or      *)
(* through |=, since it was last cleared or reset; an insert clears no bit *)
(* and changes no byte outside the used bytes of the K buckets it selects, *)
(* and changes nothing when the hash is already in; a |= b leaves in a     *)
(* what inserting the elements of b into a leaves.                         *)
(***************************************************************************)
\* the bits one call of set(p, hash) sets, in an array of n bytes
C25_SetPattern(c, n, pair) ==
  Patch(Fill(n, 0), pair[1], mark(c, Fill(block_size(c), 0), pair[2]))

RECURSIVE C25_OrOfSets(_, _, _, _)
C25_OrOfSets(c, n, pairs, i) ==
  IF i > Len(pairs) THEN Fill(n, 0)
  ELSE OrBytes(C25_SetPattern(c, n, pairs[i]), C25_OrOfSets(c, n, pairs, i + 1))

\* the bit pattern of hash h in the memory of filter f
C25_Pattern(f, h) ==
  C25_OrOfSets(Configs[cfg], Len(MemOf(Machine, flt[f].buckets.buf)),
               C24_Sets(f, h), 1)

RECURSIVE C25_OrOfPatterns(_, _)
C25_OrOfPatterns(f, S) ==
  IF S = {} THEN Fill(Len(MemOf(Machine, flt[f].buckets.buf)), 0)
  ELSE LET h == CHOOSE x \in S : TRUE
       IN  OrBytes(C25_Pattern(f, h), C25_OrOfPatterns(f, S \ {h}))

\* the memory of filter f after the hashes of S are inserted one by one
RECURSIVE C25_InsertAll(_, _, _)
C25_InsertAll(f, mem, S) ==
  IF S = {} THEN mem
  ELSE LET h == CHOOSE x \in S : TRUE
       IN  C25_InsertAll(f, insert(Configs[cfg], flt[f], mem, h).mem, S \ {h})

C25_Used(f, mem) ==
  Slice(mem, flt[f].buckets.off, used_array_size(Configs[cfg], range(flt[f])))

C25_State ==
  \A f \in FilterIds :
    (flt[f].alive /\ Cap(f) > 0) =>
      UsedBytes(Machine, f) = C25_Used(f, C25_OrOfPatterns(f, ins[f]))

\* byte i lies in the used bytes of one of the buckets selected
C25_Selected(f, h, i) ==
  \E j \in 1..Len(C24_Sets(f, h)) :
    /\ i > C24_Sets(f, h)[j][1]
    /\ i <= C24_Sets(f, h)[j][1] + used_block_size(Configs[cfg])

C25_InsertStep(f, h, mem, mem2) ==
  /\ flt' = flt
  /\ Len(mem2) = Len(mem)
  /\ \A i \in 1..Len(mem) :
       mem2[i] # mem[i] =>
         /\ BitOr(mem[i], mem2[i], 8) = mem2[i]
         /\ C25_Selected(f, h, i)
  /\ h \in ins[f] => mem2 = mem

\* an insert step is told by last and by the hash it adds to ins; when the
\* hash was in, the step is taken as the insert of every hash that was
C25_Step ==
  /\ \A f \in FilterIds, h \in Hashes :
       (last'.op = "insert" /\ flt[f].alive
          /\ ins' = [ins EXCEPT ![f] = @ \cup {h}]) =>
         C25_InsertStep(f, h, MemOf(Machine, flt[f].buckets.buf),
                        MemOf(MachineNext, flt[f].buckets.buf))
  /\ \A f, x \in FilterIds :
       (last'.op = "or" /\ ~last'.thrown /\ f # x
          /\ ins' = [ins EXCEPT ![f] = @ \cup ins[x]]
          /\ Combine(f, x, "or") /\ Cap(f) > 0) =>
         MemOf(MachineNext, flt[f].buckets.buf)
           = C25_InsertAll(f, MemOf(Machine, flt[f].buckets.buf), ins[x])

C25_ArrayIsOrOfPatterns == []C25_State /\ [][C25_Step]_vars

\* a filter whose blocks overlap holds two hashes, one of them received
\* through |=, and their patterns share a byte without being equal
C25_Witness ==
  \E f \in FilterIds :
    /\ last.op = "or" /\ ~last.thrown
    /\ flt[f].alive /\ Cap(f) > 0
    /\ bucket_size(Configs[cfg]) < used_block_size(Configs[cfg])
    /\ \E h, g \in ins[f] :
         /\ C25_Pattern(f, h) # C25_Pattern(f, g)
         /\ \E i \in 1..Len(C25_Pattern(f, h)) :
              C25_Pattern(f, h)[i] # 0 /\ C25_Pattern(f, g)[i] # 0

(***************************************************************************)
(* C26: for block and multiblock, every value x and every hash h,          *)
(* check(x, h) is true exactly when every bit mark(., h) sets is set in x  *)
(* (block: the K' bits h_i & (w-1) of the one Block; multiblock: bit       *)
(* h_i & (w-1) of element i); mark(x, h) sets those bits, no other, and    *)
(* clears none, so check is true after mark.                               *)
(***************************************************************************)
\* the positions, in the bits of x, that mark(., h) is to set
C26_Bits(c, h) ==
  {(IF c.sub = "block" THEN 0 ELSE (i - 1) * block_width(c))
     + (FromBytes(Slice(loop(c, h)[i], 0, 2)) % block_width(c)) : i \in 1..c.kp}

C26_Scalar(c) == c.sub \in {"block", "multiblock"} /\ c.impl = "scalar"

C26_Relation(c, x, h, bits, marked) ==
  /\ bits \subseteq 0..(8 * Len(x) - 1)
  /\ c.sub = "block" => bits \subseteq 0..(block_width(c) - 1)
  /\ c.sub = "multiblock" =>
       \A i \in 1..c.kp :
         Cardinality(bits \cap ((i - 1) * block_width(c))..(i * block_width(c) - 1)) = 1
  /\ check(c, x, h) = (\A b \in bits : TestBit(x, b))
  /\ Len(marked) = Len(x)
  /\ \A b \in 0..(8 * Len(x) - 1) :
       TestBit(marked, b) = (TestBit(x, b) \/ b \in bits)
  /\ check(c, marked, h)

C26_ScalarSubfilters ==
  C26_Scalar(Subfilter) =>
    /\ \A h \in AllHashes : C26_Relation(Subfilter, last.x, h, C26_Bits(Subfilter, h),
                                        mark(Subfilter, last.x, h))
    /\ last.op = "mark" => last.x = mark(Subfilter, last.x0, last.hash)
    /\ last.op = "check" => last.ret = check(Subfilter, last.x, last.hash)

\* a check has answered false on a value that holds some but not all bits of
\* the hash, after a mark of another hash
C26_Witness ==
  /\ C26_Scalar(Subfilter) /\ Subfilter.kp > 1
  /\ last.op = "check" /\ ~last.ret
  /\ \E b \in C26_Bits(Subfilter, last.hash) : TestBit(last.x, b)
  /\ \E h \in AllHashes : h # last.hash /\ check(Subfilter, last.x, h)

(***************************************************************************)
(* C27: for a block of w = 8 * sizeof(Block) bits, w a power of two, and   *)
(* any K', exactly K' indices are produced; at most rehash_k =             *)
(* (64 - log2(w)) / log2(w) indices are drawn from one hash before it is   *)
(* replaced by mulx64_mix(hash), and no bit at or above 64 is drawn.  With *)
(* block_base::loop the j-th index drawn from a hash is its log2(w) bits   *)
(* from bit j * log2(w) on, j >= 1, so bits 0..log2(w)-1 of a hash select  *)
(* nothing.  With block_base::next that holds of the hash given; of a hash *)
(* mulx64_mix has produced the j-th index is the bits from bit             *)
(* (j - 1) * log2(w) on, the first being its lowest bits.                  *)
(***************************************************************************)
RECURSIVE C27_Mixed(_, _)
C27_Mixed(hash, b) == IF b = 0 THEN hash ELSE mulx64_mix(C27_Mixed(hash, b - 1))

\* the value of bits from..from+n-1 of the word h
RECURSIVE C27_Field(_, _, _)
C27_Field(h, from, n) ==
  IF n = 0 THEN 0
  ELSE (IF TestBit(h, from) THEN 1 ELSE 0) + 2 * C27_Field(h, from + 1, n - 1)

\* the values h the i-th index is masked from
C27_Steps(c, hash) ==
  IF c.impl = "next" THEN next_steps(c, 0, hash, hash) ELSE loop(c, hash)

C27_Extracting(c) == c.sub \in {"block", "multiblock"}

\* hs[i] is the hash the i-th index is drawn from shifted right by
\* times * log2(w), times being j or j - 1
C27_Index(c, hs, hash, i, times) ==
  LET src == C27_Mixed(hash, (i - 1) \div rehash_k(c))
  IN  /\ ((i - 1) % rehash_k(c)) + 1 <= rehash_k(c)
      /\ (times + 1) * shift(c) <= hash_width
      /\ Len(hs[i]) = 8
      /\ \A t \in 0..(hash_width - 1) :
           TestBit(hs[i], t) = (t + times * shift(c) < hash_width
                                /\ TestBit(src, t + times * shift(c)))
      /\ masked(c, hs[i]) = C27_Field(src, times * shift(c), shift(c))

C27_Widths(c) ==
  /\ Pow2(shift(c)) = block_width(c)
  /\ shift(c) >= 1
  /\ rehash_k(c) = (hash_width - shift(c)) \div shift(c)

\* the number of shifts before the i-th index is masked
C27_Times(c, i) ==
  IF c.impl = "next" /\ i > rehash_k(c)
  THEN (i - 1) % rehash_k(c)
  ELSE ((i - 1) % rehash_k(c)) + 1

C27_Indices(c, h, hs) ==
  /\ Len(hs) = c.kp
  /\ \A i \in 1..c.kp : C27_Index(c, hs, h, i, C27_Times(c, i))

C27_BitExtraction ==
  C27_Extracting(Subfilter) =>
    /\ C27_Widths(Subfilter)
    /\ \A h \in AllHashes : C27_Indices(Subfilter, h, C27_Steps(Subfilter, h))

\* a mark has set, for an instantiation with K' > rehash_k, the bit its last
\* index selects, which is drawn from the hash mulx64_mix has replaced
C27_Witness ==
  /\ C27_Extracting(Subfilter)
  /\ Subfilter.kp > rehash_k(Subfilter)
  /\ last.op = "mark"
  /\ C27_Mixed(last.hash, 1) # last.hash
  /\ last.x # last.x0
  /\ TestBit(last.x,
             (Subfilter.kp - 1) * (IF Subfilter.sub = "block" THEN 0
                                   ELSE block_width(Subfilter))
               + C27_Field(C27_Mixed(last.hash, 1),
                           C27_Times(Subfilter, Subfilter.kp) * shift(Subfilter),
                           shift(Subfilter)))

\* the claim as made: every index is masked after a shift by a positive
\* multiple of log2(w)
C27_IndicesShifted(c, h, hs) ==
  /\ Len(hs) = c.kp
  /\ \A i \in 1..c.kp : C27_Index(c, hs, h, i, ((i - 1) % rehash_k(c)) + 1)

C27_EveryIndexShifted ==
  C27_Extracting(Subfilter) =>
    /\ C27_Widths(Subfilter)
    /\ \A h \in AllHashes :
         C27_IndicesShifted(Subfilter, h, C27_Steps(Subfilter, h))
(***************************************************************************)
(* C28: fast_multiblock32<K'> with AVX2 or NEON.  mark ORs into x one bit  *)
(* in each of the 32-bit lanes 0..K'-1, at the position the top 5 bits of  *)
(* the lane's product give, and leaves the lanes from K' on, so the bytes  *)
(* after the first 4 * K' stay; check is true exactly when those K' bits   *)
(* are set, whatever the lanes from K' on hold; lanes 8q..8q+7 take their  *)
(* positions from the hash after q applications of mulx64_mix, in mark and *)
(* in check alike.                                                         *)
(***************************************************************************)
C28_Simd(c) == c.sub = "fast_multiblock32" /\ c.impl \in {"avx2", "neon"}

\* the bit of lane g that the hash selects: lane g of a chunk multiplies the
\* low (g even) or high (g odd) half of the hash by the lane's constant
C28_Position(hash, g) ==
  LowProduct(Lane(avx2_rehash, g % 8),
             Slice(C27_Mixed(hash, g \div 8), 4 * (g % 2), 4), 4)[4] \div 8

\* x with the lanes from K' on replaced by bytes v
C28_Beyond(c, x, v) ==
  Slice(x, 0, 4 * c.kp) \o Fill(Len(x) - 4 * c.kp, v)

C28_Lanes(c, x, h, marked, pattern) ==
  /\ Len(pattern) = Len(x) /\ Len(marked) = Len(x)
  /\ Len(x) = 32 * ((c.kp + 7) \div 8)
  /\ \A g \in 0..(NumLanes(x) - 1) :
       IF g < c.kp
       THEN /\ C28_Position(h, g) \in 0..31
            /\ Lane(pattern, g) = SetBit(Fill(4, 0), C28_Position(h, g))
       ELSE /\ Lane(pattern, g) = Fill(4, 0)
            /\ Lane(marked, g) = Lane(x, g)
  /\ marked = OrBytes(x, pattern)
  /\ Slice(marked, 4 * c.kp, Len(x) - 4 * c.kp) = Slice(x, 4 * c.kp, Len(x) - 4 * c.kp)
  /\ check(c, x, h) = (AndBytes(x, pattern) = pattern)
  /\ check(c, C28_Beyond(c, x, 0), h) = check(c, x, h)
  /\ check(c, C28_Beyond(c, x, 255), h) = check(c, x, h)
  /\ check(c, marked, h)

C28_LaneDiscipline ==
  C28_Simd(Subfilter) =>
    /\ used_block_size(Subfilter) = 4 * Subfilter.kp
    /\ \A h \in AllHashes :
         C28_Lanes(Subfilter, last.x, h, mark(Subfilter, last.x, h),
                   mark(Subfilter, Fill(block_size(Subfilter), 0), h))
    /\ last.op = "mark" => last.x = mark(Subfilter, last.x0, last.hash)
    /\ last.op = "check" => last.ret = check(Subfilter, last.x, last.hash)

\* a mark of the instantiation with more than 8 lanes has set a bit in a lane
\* of the second chunk of a value that was not full, and a check of another
\* hash on the result has answered false
C28_Witness ==
  /\ C28_Simd(Subfilter) /\ Subfilter.kp > 8
  /\ last.op = "check" /\ ~last.ret
  /\ \E h \in AllHashes :
       /\ h # last.hash
       /\ check(Subfilter, last.x, h)
       /\ TestBit(last.x, 32 * 8 + C28_Position(h, 8))
  /\ Lane(last.x, Subfilter.kp) = Fill(4, 0)

(***************************************************************************)
(* C29: when bucket_size is a multiple of alignof(Block), the buckets      *)
(* pointer of every live filter, into an allocated buffer or into the      *)
(* static array, is aligned to max(64, alignof(Block)) and lies at most    *)
(* initial_alignment - 1 bytes after the pointer allocated, so every       *)
(* bucket base buckets + pos * bucket_size is aligned to alignof(Block);   *)
(* otherwise buckets is the pointer allocated.                             *)
(***************************************************************************)
\* the address the allocator (or the linker) gave, and the address of buckets
C29_Allocated(f) ==
  IF flt[f].buckets.buf = NULL THEN dummy.addr ELSE heap[flt[f].buckets.buf].addr

C29_Buckets(f) == C29_Allocated(f) + flt[f].buckets.off

C29_Max(a, b) == IF a > b THEN a ELSE b

C29_Aligned(c, f) ==
  IF bucket_size(c) % alignof_block(c) = 0
  THEN /\ C29_Buckets(f) % C29_Max(64, alignof_block(c)) = 0
       /\ flt[f].buckets.off >= 0
       /\ flt[f].buckets.off <= initial_alignment(c) - 1
       /\ \A pos \in 0..(flt[f].rng - 1) :
            (C29_Buckets(f) + pos * bucket_size(c)) % alignof_block(c) = 0
  ELSE C29_Buckets(f) = C29_Allocated(f)

C30_Small(y) == Len(Significant(y)) <= 1

C30_Product(x, y, r) ==
  /\ Len(r.lo) = 8 /\ Len(r.hi) = 8
  /\ \A i \in 1..8 : r.lo[i] \in 0..255 /\ r.hi[i] \in 0..255
  /\ r = umul128("uint128", x, y)
  /\ r = umul128("portable", x, y)
  /\ r = umul128("portable", y, x)
  /\ C30_Small(y) => r.lo \o r.hi = Times(FromBytes(y), x)

C30_WideMultiply ==
  /\ last.op = "umul128" => C30_Product(last.x, last.y, last.r)
  /\ last.op = "mulx64_mix" =>
       /\ last.y = ToBytes(21, 1) \o ToBytes(124, 1) \o ToBytes(74, 1) \o ToBytes(127, 1)
                     \o ToBytes(185, 1) \o ToBytes(121, 1) \o ToBytes(55, 1) \o ToBytes(158, 1)
       /\ last.r = XorBytes(umul128("portable", last.x, last.y).lo,
                            umul128("portable", last.x, last.y).hi)
       /\ last.r = XorBytes(umul128("uint128", last.x, last.y).lo,
                            umul128("uint128", last.x, last.y).hi)
       /\ last.r = mulx64_mix(last.x)

\* the fallback has multiplied two words whose middle sum carries into the
\* high word
C30_Witness ==
  /\ last.op = "umul128" /\ last.build = "portable"
  /\ last.r # umul128_portable_lost_carry(last.x, last.y)
  /\ last.r.hi # Fill(8, 0)

====
